---- MODULE Spec2Model ----
(***************************************************************************)
(* Model of services/indexer_worker/main.py: the stream-indexing engine.   *)
(* A consumer process reads entries of the input stream through a consumer *)
(* group (HistoryDrain, PendingRecovery, LiveLoop), normalises each entry, *)
(* de-duplicates by frame_id, builds an index document, appends it to the  *)
(* Sink file, records the frame_id in the ledger file and acknowledges.    *)
(* Every await and every file operation of the per-entry code is one step, *)
(* so that a crash or a raised exception can fall between any two of them. *)
(***************************************************************************)
EXTENDS Integers, Sequences, FiniteSets, TLC

(***************************************************************************)
(* Bounds of the model.                                                    *)
(***************************************************************************)
\* entries the upstream producer appends to the input stream
MaxEntries == 2
\* failures in one behaviour: calls that raise, and kills of the process
MaxFaults == 1
MaxBacklog == 3
\* uploads the ingest endpoint answers in one behaviour
MaxUploads == 3

(***************************************************************************)
(* Text.  A Python str is a sequence of characters; SP and NL are the two  *)
(* whitespace characters the model uses.                                   *)
(***************************************************************************)
SP == " "
NL == "\n"
Whitespace == {SP, NL}

RECURSIVE LStrip(_)
LStrip(s) == IF s = <<>> THEN s
             ELSE IF Head(s) \in Whitespace THEN LStrip(Tail(s)) ELSE s

RECURSIVE RStrip(_)
RStrip(s) == IF s = <<>> THEN s
             ELSE IF s[Len(s)] \in Whitespace
                  THEN RStrip(SubSeq(s, 1, Len(s) - 1)) ELSE s

\* str.strip()
Strip(s) == RStrip(LStrip(s))

(***************************************************************************)
(* JSON values as json.loads returns them.                                 *)
(***************************************************************************)
JNull == [type |-> "null"]
JBool(b) == [type |-> "bool", b |-> b]
JNum(n) == [type |-> "num", n |-> n]
JStr(s) == [type |-> "str", s |-> s]
JList(items) == [type |-> "list", items |-> items]
JObj(m) == [type |-> "obj", m |-> m]

\* Python's None is the value json null decodes to
None == JNull
EmptyDict == [k \in {} |-> None]

\* Python truth value of a decoded value (`if not x`)
Truthy(v) ==
  CASE v.type = "null" -> FALSE
    [] v.type = "bool" -> v.b
    [] v.type = "num" -> v.n # 0
    [] v.type = "str" -> v.s # <<>>
    [] v.type = "list" -> v.items # <<>>
    [] v.type = "obj" -> DOMAIN v.m # {}

\* dict.get(key, default)
Get(m, key, default) == IF key \in DOMAIN m THEN m[key] ELSE default

Digit(n) == CASE n = 0 -> "0" [] n = 1 -> "1" [] n = 2 -> "2" [] n = 3 -> "3"
              [] n = 4 -> "4" [] n = 5 -> "5" [] n = 6 -> "6" [] n = 7 -> "7"
              [] n = 8 -> "8" [] n = 9 -> "9"

\* str(v) for the values a frame_id can decode to (numbers below ten)
PyStr(v) ==
  CASE v.type = "null" -> <<"N", "o", "n", "e">>
    [] v.type = "bool" -> IF v.b THEN <<"T", "r", "u", "e">>
                          ELSE <<"F", "a", "l", "s", "e">>
    [] v.type = "num" -> <<Digit(v.n)>>
    [] v.type = "str" -> v.s

(***************************************************************************)
(* Stream entries.  The field mapping kv of an entry maps field names to   *)
(* texts.  A text is the empty string, a text that is not JSON, or the     *)
(* JSON encoding of a value (json.loads of it returns val).                *)
(***************************************************************************)
RawEmpty == [text |-> "empty"]
RawGarbage == [text |-> "garbage"]
RawJson(v) == [text |-> "json", val |-> v]

\* json.loads(raw): the decoded value, or an exception
Loads(raw) == IF raw.text = "json" THEN [ok |-> TRUE, val |-> raw.val]
              ELSE [ok |-> FALSE, val |-> None]

\* `not raw` for raw = kv.get("json"): None and "" are false
RawTruthy(raw) == raw # None /\ raw.text # "empty"

\* _normalize_payload(kv): the decoded json field, or None
_normalize_payload(kv) ==
  LET raw == Get(kv, "json", None) IN
  IF ~RawTruthy(raw) THEN None
  ELSE LET r == Loads(raw) IN IF r.ok THEN r.val ELSE None

\* fid = str(man.get("frame_id", "")).strip()
FrameKey(man) == Strip(PyStr(Get(man, "frame_id", JStr(<<>>))))

(***************************************************************************)
(* Enrichment files.  A file is missing, holds text that is not JSON, or   *)
(* holds the JSON encoding of val.  fs is what the landing directory of    *)
(* one manifest looks like when the build reads it.                        *)
(***************************************************************************)
FileMissing == [text |-> "missing"]
FileGarbage == [text |-> "garbage"]
FileJson(v) == [text |-> "json", val |-> v]

\* _load_json(path): the decoded content, None on any exception
_load_json(file) == IF file.text = "json" THEN file.val ELSE None

\* x or {}
OrEmptyDict(v) == IF Truthy(v) THEN v ELSE JObj(EmptyDict)

\* variant: the list is taken with src[field], which raises when it is absent
PluckRequiresField(src, field, key) ==
  IF src.type # "obj" \/ field \notin DOMAIN src.m
  THEN [ok |-> FALSE, val |-> None]
  ELSE LET xs == src.m[field] IN
       IF xs.type = "list"
       THEN LET objs == SelectSeq(xs.items, LAMBDA o : o.type = "obj")
            IN [ok |-> TRUE,
                val |-> JList([i \in 1..Len(objs) |-> Get(objs[i].m, key, None)])]
       ELSE [ok |-> FALSE, val |-> None]

\* [o.get(key) for o in (src.get(field) or []) if isinstance(o, dict)]
\* src must be a dict (src.get); the value under field must be iterable.
Pluck(src, field, key) ==
  IF src.type # "obj" THEN [ok |-> FALSE, val |-> None]
  ELSE LET xs == Get(src.m, field, None) IN
       IF ~Truthy(xs) THEN [ok |-> TRUE, val |-> JList(<<>>)]
       ELSE CASE xs.type = "list" ->
                   LET idx == {i \in 1..Len(xs.items) : xs.items[i].type = "obj"}
                       F[i \in 0..Len(xs.items)] ==
                         IF i = 0 THEN <<>>
                         ELSE IF i \in idx
                              THEN Append(F[i-1], Get(xs.items[i].m, key, None))
                              ELSE F[i-1]
                   IN [ok |-> TRUE, val |-> JList(F[Len(xs.items)])]
              [] xs.type \in {"str", "obj"} -> [ok |-> TRUE, val |-> JList(<<>>)]
              [] OTHER -> [ok |-> FALSE, val |-> None]

\* {k: v for k, v in rec.items() if v is not None}
DropNones(rec) == [k \in {x \in DOMAIN rec : rec[x] # None} |-> rec[k]]

PathJoin(d, name) == d \o <<"/", name>>

(***************************************************************************)
(* _build_index_doc(man) with ENRICH_FROM_FILES true.  The result is       *)
(* [ok, doc]: ok is FALSE when the code raises.  camera_id stands for the  *)
(* fields copied with man.get(k) (camera_id, ts, scene, the presence       *)
(* flags), activities for those copied with a default, people for the      *)
(* three description lists.                                                *)
(***************************************************************************)
BuildKeepNones(man, fs) ==
  LET ingestRaw == Get(man, "ingest", JObj(EmptyDict))
      ingest == OrEmptyDict(ingestRaw)
  IN
  \* `"dir" in ingest` raises for a number; manifests of the model carry
  \* ingest as an object, a number or null
  IF ingest.type # "obj" THEN [ok |-> FALSE, doc |-> EmptyDict]
  ELSE
  LET hasDir == "dir" \in DOMAIN ingest.m
      dirv == IF hasDir THEN Get(ingest.m, "dir", JStr(<<>>)) ELSE None
  IN
  IF hasDir /\ dirv.type # "str" THEN [ok |-> FALSE, doc |-> EmptyDict]
  ELSE
  LET d == IF hasDir THEN dirv.s ELSE <<>>
      enrich == hasDir /\ fs.exists
      desc == IF enrich THEN OrEmptyDict(_load_json(fs.desc)) ELSE JObj(EmptyDict)
      dets == IF enrich THEN OrEmptyDict(_load_json(fs.dets)) ELSE JObj(EmptyDict)
      objects == Pluck(dets, "objects", "label")
      people == Pluck(desc, "people", "description")
      pathOrNone(name) == IF hasDir THEN JStr(PathJoin(d, name)) ELSE None
  IN
  IF ~objects.ok \/ ~people.ok THEN [ok |-> FALSE, doc |-> EmptyDict]
  ELSE [ok |-> TRUE,
        doc |-> [frame_id |-> Get(man, "frame_id", None),
                 camera_id |-> Get(man, "camera_id", None),
                 activities |-> Get(man, "activities", JList(<<>>)),
                 ingest_dir |-> IF hasDir THEN JStr(d) ELSE None,
                 files |-> JObj([frame |-> pathOrNone("frame.jpg"),
                                 detections |-> pathOrNone("detections.json")]),
                 objects |-> objects.val,
                 people |-> people.val]]

_build_index_doc(man, fs) ==
  LET r == BuildKeepNones(man, fs) IN
  IF r.ok THEN [ok |-> TRUE, doc |-> DropNones(r.doc)] ELSE r

(***************************************************************************)
(* The ledger file is a sequence of characters.                            *)
(***************************************************************************)
\* _append_seen_id(fid): fh.write(f"{fid}\n")
_append_seen_id(file, fid) == file \o fid \o <<NL>>

\* the lines of a text file, without their line ends
RECURSIVE Lines(_, _)
Lines(text, cur) ==
  IF text = <<>> THEN (IF cur = <<>> THEN <<>> ELSE <<cur>>)
  ELSE IF Head(text) = NL THEN <<cur>> \o Lines(Tail(text), <<>>)
  ELSE Lines(Tail(text), Append(cur, Head(text)))

\* _load_seen_ids(): the stripped non-empty lines of the ledger file
_load_seen_ids(file) ==
  LET ls == Lines(file, <<>>) IN
  {Strip(ls[i]) : i \in 1..Len(ls)} \ {<<>>}

(***************************************************************************)
(* Configuration (the values of config.yaml the model runs with).          *)
(***************************************************************************)
STREAM_IN == "frames.ingested"
BATCH_SIZE == 2
Consumers == {"ix-01", "ix-02"}
\* XAUTOCLAIM examines at most ScanFactor * count pending entries per call
\* (10 * count in Redis; scaled down with the backlog, so that a scan can
\* stop before the end of the pending entries)
ScanFactor == 1

(***************************************************************************)
(* State.                                                                  *)
(***************************************************************************)
VARIABLES
  stream,         \* input stream: sequence of field mappings, entry ID = index
  groupExists,    \* the consumer group was created
  lastDelivered,  \* the group's last-delivered ID
  pel,            \* pending entries: ID -> [owner, idle, dn (delivery count)]
  dlqStream,      \* dead-letter stream: sequence of [rec, dn]
  sink,           \* Sink file: sequence of lines [doc, key, id, dn]
  ledger,         \* ledger file: sequence of characters
  drainHist,      \* DRAIN_HIST
  pc,             \* per consumer process: position in main()
  phase,          \* per process: "H", "P" or "L"
  batch,          \* per process: entries of the current batch still to handle
  cur,            \* per process: locals of the per-entry code
  seen,           \* per process: in-memory set of frame_ids
  cursor,         \* per process: XAUTOCLAIM cursor of recover_pending
  faults,         \* failures so far (raised calls and kills)
  log             \* history: what each delivery's handling did

vars == <<stream, groupExists, lastDelivered, pel, dlqStream, sink, ledger,
          drainHist, pc, phase, batch, cur, seen, cursor, faults, log>>

broker == <<stream, groupExists, lastDelivered, pel, dlqStream>>
files == <<sink, ledger>>

NoCur == [id |-> 0, dn |-> 0, man |-> None, fid |-> <<>>, doc |-> EmptyDict,
          err |-> ""]

\* the n-th event ev of delivery dn of entry id, by process c in phase ph
EventOf(ev, id, dn, c, info) ==
  [ev |-> ev, id |-> id, dn |-> dn, by |-> c, ph |-> phase[c], info |-> info,
   n |-> 1 + Cardinality({e \in log : e.ev = ev /\ e.id = id /\ e.dn = dn})]

Event(ev, c, info) == EventOf(ev, cur[c].id, cur[c].dn, c, info)

Pending == DOMAIN pel

\* the IDs of a set, in increasing order
RECURSIVE SortedIds(_)
SortedIds(S) ==
  IF S = {} THEN <<>>
  ELSE LET m == CHOOSE x \in S : \A y \in S : x <= y
       IN <<m>> \o SortedIds(S \ {m})

Take(s, n) == SubSeq(s, 1, IF Len(s) < n THEN Len(s) ELSE n)

\* a delivery (read or claim) of ids to consumer c
Deliver(ids, c) ==
  [i \in Pending \cup ids |->
     IF i \in ids
     THEN [owner |-> c, idle |-> FALSE,
           dn |-> IF i \in Pending THEN pel[i].dn + 1 ELSE 1]
     ELSE pel[i]]

AsBatch(ids, p) == [k \in 1..Len(ids) |-> [id |-> ids[k], dn |-> p[ids[k]].dn]]

InitCommon ==
  /\ stream = <<>>
  /\ groupExists = FALSE
  /\ lastDelivered = 0
  /\ pel = [i \in {} |-> 0]
  /\ dlqStream = <<>>
  /\ sink = <<>>
  /\ ledger = <<>>
  /\ pc = [c \in Consumers |-> "off"]
  /\ phase = [c \in Consumers |-> "-"]
  /\ batch = [c \in Consumers |-> <<>>]
  /\ cur = [c \in Consumers |-> NoCur]
  /\ seen = [c \in Consumers |-> {}]
  /\ cursor = [c \in Consumers |-> 0]
  /\ log = {}

Init == InitCommon /\ drainHist \in BOOLEAN /\ faults = 0

(***************************************************************************)
(* Inputs: the field mappings the producer publishes, and the states of a  *)
(* landing directory.                                                      *)
(***************************************************************************)
Kv(v) == [json |-> RawJson(v)]
Manifest(m) == Kv(JObj(m))

KvNoJson == [not_json |-> RawGarbage]
KvEmptyText == [json |-> RawEmpty]
KvGarbage == [json |-> RawGarbage]
FidA == <<"a">>
FidB == <<"b">>

\* the entries of the failure runs: one of each kind of handling (mismatch,
\* raising build, indexed, same frame key again)
Payloads ==
  { KvNoJson,
    Manifest([frame_id |-> JStr(<<SP>>), ingest |-> JNum(1)]),
    Manifest([frame_id |-> JStr(FidA), camera_id |-> JStr(<<"c">>)]),
    Manifest([frame_id |-> JStr(<<SP, "a">>)]) }

\* every kind of json value, for the runs without failures
JsonScalars ==
  { JNull, JBool(FALSE), JBool(TRUE), JNum(0), JNum(1), JStr(<<>>),
    JStr(<<"a">>), JList(<<>>), JList(<<JNum(1)>>) }

WidePayloads ==
  Payloads \cup {Kv(v) : v \in JsonScalars}
    \cup { KvEmptyText, KvGarbage, Manifest(EmptyDict),
           Manifest([camera_id |-> JStr(<<"c">>)]),
           Manifest([frame_id |-> JStr(<<SP>>)]),
           Manifest([frame_id |-> JStr(<<>>)]),
           Manifest([frame_id |-> JStr(FidB)]),
           Manifest([frame_id |-> JStr(FidB), ingest |-> JNum(1)]),
           Manifest([frame_id |-> JStr(<<"a", NL, "b">>)]),
           Manifest([frame_id |-> JNull, camera_id |-> JStr(<<"c">>)]) }

NoDir == [exists |-> FALSE, desc |-> FileMissing, dets |-> FileMissing]

\* the contents an enrichment file can have; its list is under `field`, the
\* text taken from each item under `key`
FileKinds == {"0", "1", "2", "3", "4", "5", "6", "7", "8"}

GoodItems(key) ==
  JList(<<JObj(key :> JStr(<<"p">>)), JNum(1), JObj(EmptyDict)>>)

FileOfKind(k, field, key) ==
  CASE k = "0" -> FileMissing
    [] k = "1" -> FileGarbage
    [] k = "2" -> FileJson(JNull)
    [] k = "3" -> FileJson(JNum(1))
    [] k = "4" -> FileJson(JList(<<JNum(1)>>))
    [] k = "5" -> FileJson(JObj(EmptyDict))
    [] k = "6" -> FileJson(JObj(field :> GoodItems(key)))
    [] k = "7" -> FileJson(JObj(field :> JNum(1)))
    [] k = "8" -> FileJson(JObj(field :> JStr(<<"a", "b">>)))

\* the file system: the directory <<x, y>> exists and holds a
\* description.json of kind x and a detections.json of kind y; no other
\* directory exists
Disk(path) ==
  IF Len(path) = 2 /\ path[1] \in FileKinds /\ path[2] \in FileKinds
  THEN [exists |-> TRUE,
        desc |-> FileOfKind(path[1], "people", "description"),
        dets |-> FileOfKind(path[2], "objects", "label")]
  ELSE NoDir

\* ingest.dir of a manifest, <<>> when it has none
DirOf(man) ==
  LET ingest == OrEmptyDict(Get(man, "ingest", JObj(EmptyDict)))
  IN IF ingest.type = "obj" /\ "dir" \in DOMAIN ingest.m
     THEN (IF ingest.m["dir"].type = "str" THEN ingest.m["dir"].s ELSE <<>>)
     ELSE <<>>

HasDir(man) ==
  LET ingest == OrEmptyDict(Get(man, "ingest", JObj(EmptyDict)))
  IN ingest.type = "obj" /\ "dir" \in DOMAIN ingest.m
       /\ ingest.m["dir"].type = "str"

InDir(fid, path) ==
  Manifest([frame_id |-> JStr(fid), camera_id |-> JStr(<<"c">>),
            ingest |-> JObj([dir |-> JStr(path)])])

\* manifests with a landing directory: one that does not exist, and one for
\* each kind of description.json and of detections.json
EnrichPayloads ==
  { KvGarbage,
    Manifest([frame_id |-> JStr(FidA), camera_id |-> JStr(<<"c">>)]),
    Manifest([frame_id |-> JStr(FidB), camera_id |-> JNull,
              activities |-> JList(<<JStr(<<"w">>)>>),
              ingest |-> JObj([dir |-> JStr(<<"n">>)])]),
    InDir(FidA, <<"n">>) }
    \cup {InDir(FidB, <<k, "6">>) : k \in FileKinds}
    \cup {InDir(FidB, <<"6", k>>) : k \in FileKinds}

(***************************************************************************)
(* Steps.  ok = FALSE is the call raising an exception.                    *)
(***************************************************************************)
Outcomes == IF faults < MaxFaults THEN BOOLEAN ELSE {TRUE}

Fault(ok) == faults' = IF ok THEN faults ELSE faults + 1

\* the process is gone: its memory with it
Die(c) ==
  /\ pc' = [pc EXCEPT ![c] = "off"]
  /\ phase' = [phase EXCEPT ![c] = "-"]
  /\ batch' = [batch EXCEPT ![c] = <<>>]
  /\ cur' = [cur EXCEPT ![c] = NoCur]
  /\ seen' = [seen EXCEPT ![c] = {}]
  /\ cursor' = [cursor EXCEPT ![c] = 0]

\* the producer appends an entry (XADD)
Publish(kv) ==
  /\ Len(stream) < MaxEntries
  /\ stream' = Append(stream, kv)
  /\ UNCHANGED <<groupExists, lastDelivered, pel, dlqStream, files, drainHist,
                 pc, phase, batch, cur, seen, cursor, faults, log>>

\* time passes: a pending entry has been idle for MIN_IDLE_MS.  Only
\* XAUTOCLAIM reads the idle time, and a delivery resets it, so the step is
\* taken when a process is about to call XAUTOCLAIM.
IdleElapse(i) ==
  /\ i \in Pending
  /\ ~pel[i].idle
  /\ \E c \in Consumers : pc[c] = "claim"
  /\ pel' = [pel EXCEPT ![i].idle = TRUE]
  /\ UNCHANGED <<stream, groupExists, lastDelivered, dlqStream, files,
                 drainHist, pc, phase, batch, cur, seen, cursor, faults, log>>

\* variant: the group is set back to the beginning of the stream by every call
EnsureGroupResets(c) ==
  /\ pc[c] = "off"
  /\ \E ok \in Outcomes :
       /\ Fault(ok)
       /\ IF ok
          THEN /\ groupExists' = TRUE
               /\ lastDelivered' = 0
               /\ pel' = [i \in {} |-> 0]
               /\ pc' = [pc EXCEPT ![c] = "load"]
          ELSE UNCHANGED <<groupExists, lastDelivered, pel, pc>>
  /\ UNCHANGED <<stream, dlqStream, files, drainHist, phase, batch, cur, seen,
                 cursor, log>>

\* main(): process start and ensure_group.  xgroup_create(id="0-0") makes a
\* group with nothing delivered; on an existing group it fails with BUSYGROUP,
\* which is swallowed; any other exception leaves main()
EnsureGroup(c) ==
  /\ pc[c] = "off"
  /\ \E ok \in Outcomes :
       /\ Fault(ok)
       /\ IF ok
          THEN /\ groupExists' = TRUE
               /\ IF groupExists
                  THEN UNCHANGED <<lastDelivered, pel>>
                  ELSE lastDelivered' = 0 /\ pel' = [i \in {} |-> 0]
               /\ pc' = [pc EXCEPT ![c] = "load"]
          ELSE UNCHANGED <<groupExists, lastDelivered, pel, pc>>
  /\ UNCHANGED <<stream, dlqStream, files, drainHist, phase, batch, cur, seen,
                 cursor, log>>

\* variant: the history drain is never run
LoadSeenNoDrain(c) ==
  /\ pc[c] = "load"
  /\ seen' = [seen EXCEPT ![c] = _load_seen_ids(ledger)]
  /\ pc' = [pc EXCEPT ![c] = "claim"]
  /\ cursor' = [cursor EXCEPT ![c] = 0]
  /\ UNCHANGED <<broker, files, drainHist, phase, batch, cur, faults, log>>

\* main(): seen = _load_seen_ids(), then the first phase
LoadSeen(c) ==
  /\ pc[c] = "load"
  /\ seen' = [seen EXCEPT ![c] = _load_seen_ids(ledger)]
  /\ pc' = [pc EXCEPT ![c] = IF drainHist THEN "drain_read" ELSE "claim"]
  /\ cursor' = [cursor EXCEPT ![c] = 0]
  /\ UNCHANGED <<broker, files, drainHist, phase, batch, cur, faults, log>>

\* a batch was returned: handle its entries one by one
StartBatch(c, ids, ph) ==
  /\ pel' = Deliver({ids[k] : k \in 1..Len(ids)}, c)
  /\ batch' = [batch EXCEPT ![c] = AsBatch(ids, pel')]
  /\ phase' = [phase EXCEPT ![c] = ph]
  /\ pc' = [pc EXCEPT ![c] = "examine"]

\* the number of entries pending for consumer c
OwnPending(c) == Cardinality({i \in Pending : pel[i].owner = c})

\* variant: the history read returns one entry per call
DrainReadOneByOne(c) ==
  /\ pc[c] = "drain_read"
  /\ \E ok \in Outcomes :
       /\ Fault(ok)
       /\ IF ok
          THEN LET own == {i \in Pending : pel[i].owner = c}
                   ids == Take(SortedIds(own), 1)
               IN IF ids = <<>>
                  THEN /\ pc' = [pc EXCEPT ![c] = "claim"]
                       /\ UNCHANGED <<pel, batch, phase, cur, seen, cursor>>
                  ELSE /\ StartBatch(c, ids, "H")
                       /\ UNCHANGED <<cur, seen, cursor>>
          ELSE Die(c) /\ UNCHANGED pel
  /\ log' = log \cup {EventOf("hread", 0, OwnPending(c), c, "")}
  /\ UNCHANGED <<stream, groupExists, lastDelivered, dlqStream, files,
                 drainHist>>

\* drain_history: xreadgroup(GROUP, CONSUMER, {STREAM_IN: "0"}, count)
\* (history: the call and the number of entries pending for the consumer)
DrainRead(c) ==
  /\ pc[c] = "drain_read"
  /\ \E ok \in Outcomes :
       /\ Fault(ok)
       /\ IF ok
          THEN LET own == {i \in Pending : pel[i].owner = c}
                   ids == Take(SortedIds(own), BATCH_SIZE)
               IN IF ids = <<>>
                  THEN /\ pc' = [pc EXCEPT ![c] = "claim"]
                       /\ UNCHANGED <<pel, batch, phase, cur, seen, cursor>>
                  ELSE /\ StartBatch(c, ids, "H")
                       /\ UNCHANGED <<cur, seen, cursor>>
          ELSE Die(c) /\ UNCHANGED pel
  /\ log' = log \cup {EventOf("hread", 0, OwnPending(c), c, "")}
  /\ UNCHANGED <<stream, groupExists, lastDelivered, dlqStream, files,
                 drainHist>>

\* XAUTOCLAIM's scan of the pending entries from the cursor on
RECURSIVE Scan(_, _, _, _)
Scan(cand, attempts, count, acc) ==
  IF attempts = 0 \/ count = 0 \/ cand = <<>>
  THEN [claimed |-> acc, next |-> IF cand = <<>> THEN 0 ELSE Head(cand)]
  ELSE IF pel[Head(cand)].idle
       THEN Scan(Tail(cand), attempts - 1, count - 1, Append(acc, Head(cand)))
       ELSE Scan(Tail(cand), attempts - 1, count, acc)

\* history: a scan that claimed nothing left the cursor at `next`
Moved(c, next) ==
  [ev |-> "scan", id |-> 0, dn |-> next, by |-> c, ph |-> "P", info |-> "",
   n |-> 1]

\* variant: a failed reclaim call raises out of the phase and main()
ClaimFailureRaises(c) ==
  /\ pc[c] = "claim"
  /\ \E ok \in Outcomes :
       /\ Fault(ok)
       /\ IF ok
          THEN LET cand == SortedIds({i \in Pending : i >= cursor[c]})
                   r == Scan(cand, ScanFactor * BATCH_SIZE, BATCH_SIZE, <<>>)
               IN IF r.claimed = <<>>
                  THEN /\ IF r.next = cursor[c]
                          THEN /\ pc' = [pc EXCEPT ![c] = "live_read"]
                               /\ UNCHANGED <<cursor, log>>
                          ELSE /\ cursor' = [cursor EXCEPT ![c] = r.next]
                               /\ log' = log \cup {Moved(c, r.next)}
                               /\ UNCHANGED pc
                       /\ UNCHANGED <<pel, batch, phase, cur, seen>>
                  ELSE /\ StartBatch(c, r.claimed, "P")
                       /\ UNCHANGED <<cursor, log, cur, seen>>
          ELSE /\ Die(c)
               /\ log' = log \cup {EventOf("noclaim", 0, 0, c, "")}
               /\ UNCHANGED pel
  /\ UNCHANGED <<stream, groupExists, lastDelivered, dlqStream, files,
                 drainHist>>

\* variant: an empty scan is always followed by another one
ClaimNeverReturns(c) ==
  /\ pc[c] = "claim"
  /\ \E ok \in Outcomes :
       /\ Fault(ok)
       /\ IF ok
          THEN LET cand == SortedIds({i \in Pending : i >= cursor[c]})
                   r == Scan(cand, ScanFactor * BATCH_SIZE, BATCH_SIZE, <<>>)
               IN IF r.claimed = <<>>
                  THEN /\ cursor' = [cursor EXCEPT ![c] = r.next]
                       /\ log' = log \cup {Moved(c, r.next)}
                       /\ UNCHANGED pc
                       /\ UNCHANGED <<pel, batch, phase>>
                  ELSE /\ StartBatch(c, r.claimed, "P")
                       /\ UNCHANGED <<cursor, log>>
          ELSE /\ pc' = [pc EXCEPT ![c] = "live_read"]
               /\ log' = log \cup {EventOf("noclaim", 0, 0, c, "")}
               /\ UNCHANGED <<pel, batch, phase, cursor>>
  /\ UNCHANGED <<stream, groupExists, lastDelivered, dlqStream, files,
                 drainHist, cur, seen>>

\* variant: the phase returns after the first scan that claims nothing
ClaimReturnsOnEmpty(c) ==
  /\ pc[c] = "claim"
  /\ \E ok \in Outcomes :
       /\ Fault(ok)
       /\ IF ok
          THEN LET cand == SortedIds({i \in Pending : i >= cursor[c]})
                   r == Scan(cand, ScanFactor * BATCH_SIZE, BATCH_SIZE, <<>>)
               IN IF r.claimed = <<>>
                  THEN /\ pc' = [pc EXCEPT ![c] = "live_read"]
                       /\ UNCHANGED <<cursor, log>>
                       /\ UNCHANGED <<pel, batch, phase>>
                  ELSE /\ StartBatch(c, r.claimed, "P")
                       /\ UNCHANGED <<cursor, log>>
          ELSE /\ pc' = [pc EXCEPT ![c] = "live_read"]
               /\ log' = log \cup {EventOf("noclaim", 0, 0, c, "")}
               /\ UNCHANGED <<pel, batch, phase, cursor>>
  /\ UNCHANGED <<stream, groupExists, lastDelivered, dlqStream, files,
                 drainHist, cur, seen>>

\* recover_pending: xautoclaim(..., MIN_IDLE_MS, start_id=cursor, count)
Claim(c) ==
  /\ pc[c] = "claim"
  /\ \E ok \in Outcomes :
       /\ Fault(ok)
       /\ IF ok
          THEN LET cand == SortedIds({i \in Pending : i >= cursor[c]})
                   r == Scan(cand, ScanFactor * BATCH_SIZE, BATCH_SIZE, <<>>)
               IN IF r.claimed = <<>>
                  THEN /\ IF r.next = cursor[c]
                          THEN /\ pc' = [pc EXCEPT ![c] = "live_read"]
                               /\ UNCHANGED <<cursor, log>>
                          ELSE /\ cursor' = [cursor EXCEPT ![c] = r.next]
                               /\ log' = log \cup {Moved(c, r.next)}
                               /\ UNCHANGED pc
                       /\ UNCHANGED <<pel, batch, phase>>
                  ELSE /\ StartBatch(c, r.claimed, "P")
                       /\ UNCHANGED <<cursor, log>>
          ELSE /\ pc' = [pc EXCEPT ![c] = "live_read"]
               /\ log' = log \cup {EventOf("noclaim", 0, 0, c, "")}
               /\ UNCHANGED <<pel, batch, phase, cursor>>
  /\ UNCHANGED <<stream, groupExists, lastDelivered, dlqStream, files,
                 drainHist, cur, seen>>

\* variant: a live read that returns nothing ends the loop and main()
LiveReadReturnsOnEmpty(c) ==
  /\ pc[c] = "live_read"
  /\ \E ok \in Outcomes :
       /\ Fault(ok)
       /\ IF ok
          THEN LET hi == IF Len(stream) < lastDelivered + BATCH_SIZE
                         THEN Len(stream) ELSE lastDelivered + BATCH_SIZE
                   ids == [k \in 1..(hi - lastDelivered) |-> lastDelivered + k]
               IN IF ids = <<>>
                  THEN Die(c) /\ UNCHANGED <<pel, lastDelivered>>
                  ELSE /\ StartBatch(c, ids, "L")
                       /\ lastDelivered' = hi
                       /\ UNCHANGED <<cur, seen, cursor>>
          ELSE Die(c) /\ UNCHANGED <<pel, lastDelivered>>
  /\ UNCHANGED <<stream, groupExists, dlqStream, files, drainHist, log>>

\* live_loop: xreadgroup(GROUP, CONSUMER, {STREAM_IN: ">"}, count, block)
LiveRead(c) ==
  /\ pc[c] = "live_read"
  /\ \E ok \in Outcomes :
       /\ Fault(ok)
       /\ IF ok
          THEN LET hi == IF Len(stream) < lastDelivered + BATCH_SIZE
                         THEN Len(stream) ELSE lastDelivered + BATCH_SIZE
                   ids == [k \in 1..(hi - lastDelivered) |-> lastDelivered + k]
               IN IF ids = <<>>
                  THEN UNCHANGED <<pel, lastDelivered, batch, phase, pc, cur,
                                   seen, cursor>>
                  ELSE /\ StartBatch(c, ids, "L")
                       /\ lastDelivered' = hi
                       /\ UNCHANGED <<cur, seen, cursor>>
          ELSE Die(c) /\ UNCHANGED <<pel, lastDelivered>>
  /\ UNCHANGED <<stream, groupExists, dlqStream, files, drainHist, log>>

(***************************************************************************)
(* Per-entry code (the same in the three phases).                          *)
(***************************************************************************)
\* variant: after a reclaimed batch the process goes back to the history read
ReadPcBackToDrain(ph) == CASE ph = "H" -> "drain_read"
                           [] ph = "P" -> "drain_read"
                           [] ph = "L" -> "live_read"

ReadPc(ph) == CASE ph = "H" -> "drain_read"
                [] ph = "P" -> "claim"
                [] ph = "L" -> "live_read"

\* variant: after one entry the loop leaves the batch for the next read
NextEntryLeavesBatch(c) ==
  /\ batch' = [batch EXCEPT ![c] = <<>>]
  /\ cur' = [cur EXCEPT ![c] = NoCur]
  /\ pc' = [pc EXCEPT ![c] = ReadPc(phase[c])]

\* the entry at the head of the batch is done: the next one, or the next read
NextEntry(c) ==
  /\ batch' = [batch EXCEPT ![c] = Tail(batch[c])]
  /\ cur' = [cur EXCEPT ![c] = NoCur]
  /\ pc' = [pc EXCEPT ![c] = IF Tail(batch[c]) = <<>> THEN ReadPc(phase[c])
                             ELSE "examine"]

\* an exception reaches the handler `except Exception as e`
Raise(c, e) ==
  /\ pc' = [pc EXCEPT ![c] = "exc_dlq"]
  /\ cur' = [cur EXCEPT ![c].err = e]

\* variant: no membership test of the frame key before building
ExamineNoDedup(c) ==
  /\ pc[c] = "examine"
  /\ LET e == Head(batch[c])
         man == _normalize_payload(stream[e.id])
         here == [NoCur EXCEPT !.id = e.id, !.dn = e.dn, !.man = man]
     IN IF ~Truthy(man)
        THEN /\ pc' = [pc EXCEPT ![c] = "mm_dlq"]
             /\ cur' = [cur EXCEPT ![c] = here]
        ELSE IF man.type # "obj"
        THEN /\ pc' = [pc EXCEPT ![c] = "exc_dlq"]
             /\ cur' = [cur EXCEPT ![c] = [here EXCEPT !.err = "exception:attr"]]
        ELSE /\ cur' = [cur EXCEPT ![c] = [here EXCEPT !.fid = FrameKey(man.m)]]
             /\ pc' = [pc EXCEPT ![c] = "build"]
  /\ UNCHANGED <<broker, files, drainHist, phase, batch, seen, cursor, faults,
                 log>>

\* variant: the loop takes the last entry of the batch first
ExamineLastFirst(c) ==
  /\ pc[c] = "examine"
  /\ LET e == batch[c][Len(batch[c])]
         man == _normalize_payload(stream[e.id])
         here == [NoCur EXCEPT !.id = e.id, !.dn = e.dn, !.man = man]
     IN IF ~Truthy(man)
        THEN /\ pc' = [pc EXCEPT ![c] = "mm_dlq"]
             /\ cur' = [cur EXCEPT ![c] = here]
             /\ UNCHANGED log
        ELSE IF man.type # "obj"
        THEN \* man.get raises AttributeError
             /\ pc' = [pc EXCEPT ![c] = "exc_dlq"]
             /\ cur' = [cur EXCEPT ![c] = [here EXCEPT !.err = "exception:attr"]]
             /\ UNCHANGED log
        ELSE LET fid == FrameKey(man.m) IN
             /\ cur' = [cur EXCEPT ![c] = [here EXCEPT !.fid = fid]]
             /\ IF fid # <<>> /\ fid \in seen[c]
                THEN /\ pc' = [pc EXCEPT ![c] = "skip_ack"]
                     /\ log' = log \cup {EventOf("skip", e.id, e.dn, c, "")}
                ELSE /\ pc' = [pc EXCEPT ![c] = "build"]
                     /\ UNCHANGED log
  /\ UNCHANGED <<broker, files, drainHist, phase, batch, seen, cursor, faults>>

\* man = _normalize_payload(kv); if not man; fid = ...; if fid and fid in seen
Examine(c) ==
  /\ pc[c] = "examine"
  /\ LET e == Head(batch[c])
         man == _normalize_payload(stream[e.id])
         here == [NoCur EXCEPT !.id = e.id, !.dn = e.dn, !.man = man]
     IN IF ~Truthy(man)
        THEN /\ pc' = [pc EXCEPT ![c] = "mm_dlq"]
             /\ cur' = [cur EXCEPT ![c] = here]
             /\ UNCHANGED log
        ELSE IF man.type # "obj"
        THEN \* man.get raises AttributeError
             /\ pc' = [pc EXCEPT ![c] = "exc_dlq"]
             /\ cur' = [cur EXCEPT ![c] = [here EXCEPT !.err = "exception:attr"]]
             /\ UNCHANGED log
        ELSE LET fid == FrameKey(man.m) IN
             /\ cur' = [cur EXCEPT ![c] = [here EXCEPT !.fid = fid]]
             /\ IF fid # <<>> /\ fid \in seen[c]
                THEN /\ pc' = [pc EXCEPT ![c] = "skip_ack"]
                     /\ log' = log \cup {EventOf("skip", e.id, e.dn, c, "")}
                ELSE /\ pc' = [pc EXCEPT ![c] = "build"]
                     /\ UNCHANGED log
  /\ UNCHANGED <<broker, files, drainHist, phase, batch, seen, cursor, faults>>

\* doc = _build_index_doc(man)
Build(c) ==
  /\ pc[c] = "build"
  /\ LET man == cur[c].man.m
         r == _build_index_doc(man, Disk(DirOf(man)))
     IN IF r.ok THEN /\ pc' = [pc EXCEPT ![c] = "sink"]
                     /\ cur' = [cur EXCEPT ![c].doc = r.doc]
                ELSE Raise(c, "exception:build")
  /\ log' = log \cup {Event("build", c, "")}
  /\ UNCHANGED <<broker, files, drainHist, phase, batch, seen, cursor, faults>>

\* variant: a failed write is ignored and the entry goes on to the ledger
SinkAppendSwallowed(c) ==
  /\ pc[c] = "sink"
  /\ \E ok \in Outcomes :
       /\ Fault(ok)
       /\ IF ok
          THEN sink' = Append(sink, [doc |-> cur[c].doc, key |-> cur[c].fid,
                                     id |-> cur[c].id, dn |-> cur[c].dn])
          ELSE UNCHANGED sink
       /\ pc' = [pc EXCEPT ![c] = IF cur[c].fid # <<>> THEN "record"
                                  ELSE "ok_ack"]
       /\ UNCHANGED cur
  /\ UNCHANGED <<broker, ledger, drainHist, phase, batch, seen, cursor, log>>

\* variant: the line is written although the write raises
SinkAppendThenRaise(c) ==
  /\ pc[c] = "sink"
  /\ \E ok \in Outcomes :
       /\ Fault(ok)
       /\ sink' = Append(sink, [doc |-> cur[c].doc, key |-> cur[c].fid,
                                id |-> cur[c].id, dn |-> cur[c].dn])
       /\ IF ok
          THEN /\ pc' = [pc EXCEPT ![c] = IF cur[c].fid # <<>> THEN "record"
                                          ELSE "ok_ack"]
               /\ UNCHANGED cur
          ELSE Raise(c, "exception:sink")
  /\ UNCHANGED <<broker, ledger, drainHist, phase, batch, seen, cursor, log>>

\* variant: the Sink is opened for writing, not for appending
SinkAppendTruncates(c) ==
  /\ pc[c] = "sink"
  /\ \E ok \in Outcomes :
       /\ Fault(ok)
       /\ IF ok
          THEN /\ sink' = <<[doc |-> cur[c].doc, key |-> cur[c].fid,
                             id |-> cur[c].id, dn |-> cur[c].dn]>>
               /\ pc' = [pc EXCEPT ![c] = IF cur[c].fid # <<>> THEN "record"
                                          ELSE "ok_ack"]
               /\ UNCHANGED cur
          ELSE Raise(c, "exception:sink") /\ UNCHANGED sink
  /\ UNCHANGED <<broker, ledger, drainHist, phase, batch, seen, cursor, log>>

\* with OUT_PATH.open("a") as fh: fh.write(json.dumps(doc) + "\n")
SinkAppend(c) ==
  /\ pc[c] = "sink"
  /\ \E ok \in Outcomes :
       /\ Fault(ok)
       /\ IF ok
          THEN /\ sink' = Append(sink, [doc |-> cur[c].doc, key |-> cur[c].fid,
                                        id |-> cur[c].id, dn |-> cur[c].dn])
               /\ pc' = [pc EXCEPT ![c] = IF cur[c].fid # <<>> THEN "record"
                                          ELSE "ok_ack"]
               /\ UNCHANGED cur
          ELSE Raise(c, "exception:sink") /\ UNCHANGED sink
  /\ UNCHANGED <<broker, ledger, drainHist, phase, batch, seen, cursor, log>>

\* if fid: _append_seen_id(fid); seen.add(fid)
Record(c) ==
  /\ pc[c] = "record"
  /\ \E ok \in Outcomes :
       /\ Fault(ok)
       /\ IF ok
          THEN /\ ledger' = _append_seen_id(ledger, cur[c].fid)
               /\ seen' = [seen EXCEPT ![c] = @ \cup {cur[c].fid}]
               /\ pc' = [pc EXCEPT ![c] = "ok_ack"]
               /\ log' = log \cup {Event("record", c, "")}
               /\ UNCHANGED cur
          ELSE Raise(c, "exception:ledger") /\ UNCHANGED <<ledger, seen, log>>
  /\ UNCHANGED <<broker, sink, drainHist, phase, batch, cursor>>

\* variant: the record carries the decoded payload instead of the fields
dlqDecodedKv(c, error) ==
  /\ \E ok \in BOOLEAN :
       /\ IF ok
          THEN dlqStream' = Append(dlqStream,
                 [rec |-> [source |-> STREAM_IN, id |-> cur[c].id,
                           error |-> error, kv |-> cur[c].man],
                  dn |-> cur[c].dn])
          ELSE UNCHANGED dlqStream
  /\ log' = log \cup {Event("dlq", c, error)}

\* dlq(r, msg_id, kv, error): xadd to DLQ_STREAM; a failure is logged and
\* swallowed, so it is no failure of the run and is not counted as one
dlq(c, error) ==
  /\ \E ok \in BOOLEAN :
       /\ IF ok
          THEN dlqStream' = Append(dlqStream,
                 [rec |-> [source |-> STREAM_IN, id |-> cur[c].id,
                           error |-> error, kv |-> stream[cur[c].id]],
                  dn |-> cur[c].dn])
          ELSE UNCHANGED dlqStream
  /\ log' = log \cup {Event("dlq", c, error)}

\* variant: the mismatch branch acknowledges without dead-lettering
MismatchNoDlq(c) ==
  /\ pc[c] = "mm_dlq"
  /\ pc' = [pc EXCEPT ![c] = "mm_ack"]
  /\ UNCHANGED <<broker, files, drainHist, phase, batch, cur, seen, cursor,
                 faults, log>>

\* variant: a failed dead-letter publish raises into the handler
MismatchDlqRaising(c) ==
  /\ pc[c] = "mm_dlq"
  /\ \E ok \in BOOLEAN :
       IF ok
       THEN /\ dlqStream' = Append(dlqStream,
                 [rec |-> [source |-> STREAM_IN, id |-> cur[c].id,
                           error |-> "schema_mismatch",
                           kv |-> stream[cur[c].id]],
                  dn |-> cur[c].dn])
            /\ pc' = [pc EXCEPT ![c] = "mm_ack"]
            /\ UNCHANGED cur
       ELSE Raise(c, "exception:dlq") /\ UNCHANGED dlqStream
  /\ log' = log \cup {Event("dlq", c, "schema_mismatch")}
  /\ UNCHANGED <<stream, groupExists, lastDelivered, pel, files, drainHist,
                 phase, batch, seen, cursor, faults>>

\* variant: the mismatch branch dead-letters with an exception cause
MismatchDlqAsException(c) ==
  /\ pc[c] = "mm_dlq"
  /\ dlq(c, "exception:mismatch")
  /\ pc' = [pc EXCEPT ![c] = "mm_ack"]
  /\ UNCHANGED <<stream, groupExists, lastDelivered, pel, files, drainHist,
                 phase, batch, cur, seen, cursor, faults>>

\* if not man: await dlq(r, msg_id, kv, "schema_mismatch")
MismatchDlq(c) ==
  /\ pc[c] = "mm_dlq"
  /\ dlq(c, "schema_mismatch")
  /\ pc' = [pc EXCEPT ![c] = "mm_ack"]
  /\ UNCHANGED <<stream, groupExists, lastDelivered, pel, files, drainHist,
                 phase, batch, cur, seen, cursor, faults>>

\* variant: the handler acknowledges without dead-lettering
ExceptNoDlq(c) ==
  /\ pc[c] = "exc_dlq"
  /\ pc' = [pc EXCEPT ![c] = "exc_ack"]
  /\ UNCHANGED <<broker, files, drainHist, phase, batch, cur, seen, cursor,
                 faults, log>>

\* except Exception as e: await dlq(r, msg_id, kv, f"exception:{e}")
ExceptDlq(c) ==
  /\ pc[c] = "exc_dlq"
  /\ dlq(c, cur[c].err)
  /\ pc' = [pc EXCEPT ![c] = "exc_ack"]
  /\ UNCHANGED <<stream, groupExists, lastDelivered, pel, files, drainHist,
                 phase, batch, cur, seen, cursor, faults>>

\* XACK: the entry leaves the pending entries of the group
xack(c) ==
  /\ pel' = [i \in Pending \ {cur[c].id} |-> pel[i]]
  /\ log' = log \cup {Event("ack", c, pc[c])}

\* await r.xack(STREAM_IN, GROUP, msg_id) inside the try block
Ack(c) ==
  /\ pc[c] \in {"mm_ack", "skip_ack", "ok_ack"}
  /\ \E ok \in Outcomes :
       /\ Fault(ok)
       /\ IF ok
          THEN xack(c) /\ NextEntry(c)
          ELSE Raise(c, "exception:ack") /\ UNCHANGED <<pel, log, batch>>
  /\ UNCHANGED <<stream, groupExists, lastDelivered, dlqStream, files,
                 drainHist, phase, seen, cursor>>

\* variant: the handler does not acknowledge and handles the entry again
ExceptRetry(c) ==
  /\ pc[c] = "exc_ack"
  /\ pc' = [pc EXCEPT ![c] = "examine"]
  /\ cur' = [cur EXCEPT ![c] = NoCur]
  /\ UNCHANGED <<broker, files, drainHist, phase, batch, seen, cursor, faults,
                 log>>

\* await r.xack(STREAM_IN, GROUP, msg_id) inside the except block: an
\* exception here leaves the phase and main()
ExceptAck(c) ==
  /\ pc[c] = "exc_ack"
  /\ \E ok \in Outcomes :
       /\ Fault(ok)
       /\ IF ok
          THEN xack(c) /\ NextEntry(c) /\ UNCHANGED <<phase, seen, cursor>>
          ELSE Die(c) /\ UNCHANGED <<pel, log>>
  /\ UNCHANGED <<stream, groupExists, lastDelivered, dlqStream, files,
                 drainHist>>

\* the process is killed
Crash(c) ==
  /\ pc[c] # "off"
  /\ faults < MaxFaults
  /\ faults' = faults + 1
  /\ Die(c)
  /\ UNCHANGED <<broker, files, drainHist, log>>

Procs == {"ix-01"}

Next ==
  \/ \E kv \in Payloads : Publish(kv)
  \/ \E i \in 1..MaxEntries : IdleElapse(i)
  \/ \E c \in Procs :
       \/ EnsureGroup(c) \/ LoadSeen(c)
       \/ DrainRead(c) \/ Claim(c) \/ LiveRead(c)
       \/ Examine(c) \/ Build(c) \/ SinkAppend(c) \/ Record(c)
       \/ MismatchDlq(c) \/ ExceptDlq(c) \/ Ack(c) \/ ExceptAck(c)
       \/ Crash(c)

Spec == Init /\ [][Next]_vars

(***************************************************************************)
(* Runs in which no call raises and the process is not killed (a dead-     *)
(* letter publish may still be lost), over every kind of payload.          *)
(***************************************************************************)
InitWide == InitCommon /\ drainHist = TRUE /\ faults = MaxFaults

NextWide ==
  \/ \E kv \in WidePayloads : Publish(kv)
  \/ \E c \in Procs :
       \/ EnsureGroup(c) \/ LoadSeen(c)
       \/ DrainRead(c) \/ Claim(c) \/ LiveRead(c)
       \/ Examine(c) \/ Build(c) \/ SinkAppend(c) \/ Record(c)
       \/ MismatchDlq(c) \/ ExceptDlq(c) \/ Ack(c) \/ ExceptAck(c)

SpecWide == InitWide /\ [][NextWide]_vars

(***************************************************************************)
(* Runs of a process that keeps running: asyncio runs every coroutine of   *)
(* main() to its next await, so a step of the process that is enabled is   *)
(* eventually taken.  Kills and raising calls stay possible.               *)
(***************************************************************************)
LivePayloads ==
  { KvGarbage,
    Manifest([frame_id |-> JStr(FidA), camera_id |-> JStr(<<"c">>)]) }

Step(c) ==
  \/ EnsureGroup(c) \/ LoadSeen(c)
  \/ DrainRead(c) \/ Claim(c) \/ LiveRead(c)
  \/ Examine(c) \/ Build(c) \/ SinkAppend(c) \/ Record(c)
  \/ MismatchDlq(c) \/ ExceptDlq(c) \/ Ack(c) \/ ExceptAck(c)

NextLive ==
  \/ \E kv \in LivePayloads : Publish(kv)
  \/ \E i \in 1..MaxEntries : IdleElapse(i)
  \/ \E c \in Procs : Step(c) \/ Crash(c)

SpecLive == Init /\ [][NextLive]_vars /\ \A c \in Procs : WF_vars(Step(c))

(***************************************************************************)
(* Runs of a process started on a group that holds a backlog: entries      *)
(* delivered earlier to this consumer or to another one and never          *)
(* acknowledged, each idle for the minimum idle time or not yet.  No call  *)
(* raises and the process is not killed; time passes.                      *)
(***************************************************************************)
BacklogEntry(i) ==
  CASE i % 4 = 1 -> KvGarbage
    [] i % 4 = 2 -> Manifest([frame_id |-> JStr(FidA), camera_id |-> JStr(<<"c">>)])
    [] i % 4 = 3 -> Manifest([frame_id |-> JStr(<<SP>>), ingest |-> JNum(1)])
    [] OTHER -> Manifest([frame_id |-> JStr(<<SP, "a">>)])

InitBacklog ==
  /\ \E K \in 0..MaxBacklog :
       /\ stream = [i \in 1..K |-> BacklogEntry(i)]
       /\ lastDelivered = K
       /\ pel \in [1..K -> [owner : Consumers, idle : BOOLEAN, dn : {1}]]
  /\ groupExists = TRUE
  /\ dlqStream = <<>>
  /\ sink = <<>>
  /\ ledger = <<>>
  /\ pc = [c \in Consumers |-> "off"]
  /\ phase = [c \in Consumers |-> "-"]
  /\ batch = [c \in Consumers |-> <<>>]
  /\ cur = [c \in Consumers |-> NoCur]
  /\ seen = [c \in Consumers |-> {}]
  /\ cursor = [c \in Consumers |-> 0]
  /\ log = {}
  /\ drainHist \in BOOLEAN
  /\ faults = MaxFaults

NextBacklog ==
  \/ \E i \in 1..MaxBacklog : IdleElapse(i)
  \/ \E c \in Procs : Step(c)

SpecBacklog ==
  /\ InitBacklog /\ [][NextBacklog]_vars
  /\ \A c \in Procs : WF_vars(Step(c))
  /\ \A i \in 1..MaxBacklog : WF_vars(IdleElapse(i))

(***************************************************************************)
(* Cancellation.  asyncio.run cancels the task of main() on an interrupt:  *)
(* CancelledError is raised at the await the live loop is suspended in     *)
(* (the blocked read, a dead-letter publish, an acknowledge).  It is not   *)
(* an Exception, so no handler of the loop catches it; it leaves main()    *)
(* and the process exits.                                                  *)
(***************************************************************************)
LiveAwaits ==
  {"live_read", "mm_dlq", "mm_ack", "skip_ack", "ok_ack", "exc_dlq", "exc_ack"}

\* the pending cancellation is delivered at an await of the live loop
Cancel(c) ==
  /\ pc[c] \in LiveAwaits
  /\ pc[c] # "live_read" => phase[c] = "L"
  /\ faults < MaxFaults
  /\ faults' = faults + 1
  /\ Die(c)
  /\ log' = log \cup {EventOf("cancel", 0, 0, c, pc[c])}
  /\ UNCHANGED <<broker, files, drainHist>>

NextCancel ==
  \/ \E kv \in LivePayloads : Publish(kv)
  \/ \E c \in Procs : Step(c) \/ Cancel(c)

SpecCancel == Init /\ [][NextCancel]_vars /\ \A c \in Procs : WF_vars(Step(c))

(***************************************************************************)
(* Scale-out: two processes of the same group, one per consumer name, on   *)
(* the same Sink and ledger files.  Each runs main() on its own: its seen  *)
(* set is loaded once at its start and updated only by its own appends.    *)
(* No call raises and no process is killed.                                *)
(***************************************************************************)
ScalePayloads ==
  { KvGarbage,
    Manifest([frame_id |-> JStr(<<SP>>), ingest |-> JNum(1)]),
    Manifest([frame_id |-> JStr(FidA), camera_id |-> JStr(<<"c">>)]) }

InitScale == InitCommon /\ drainHist = TRUE /\ faults = MaxFaults

NextScale ==
  \/ \E kv \in ScalePayloads : Publish(kv)
  \/ \E c \in Consumers : Step(c)

SpecScale == InitScale /\ [][NextScale]_vars

(***************************************************************************)
(* Runs over manifests with landing directories in every state of the      *)
(* enrichment files.  No call raises and the process is not killed.        *)
(***************************************************************************)
NextEnrich ==
  \/ \E kv \in EnrichPayloads : Publish(kv)
  \/ \E c \in Procs : Step(c)

SpecEnrich == InitWide /\ [][NextEnrich]_vars

(***************************************************************************)
(* Runs with restarts over frame_ids that the ledger file cannot hold on   *)
(* one line: kills and raising calls as in SpecLive, and a Manifest whose  *)
(* frame_id has a line break in it.                                        *)
(***************************************************************************)
LedgerPayloads ==
  { KvGarbage,
    Manifest([frame_id |-> JStr(FidA), camera_id |-> JStr(<<"c">>)]),
    Manifest([frame_id |-> JStr(<<"a", NL, "b">>)]) }

NextRestart ==
  \/ \E kv \in LedgerPayloads : Publish(kv)
  \/ \E i \in 1..MaxEntries : IdleElapse(i)
  \/ \E c \in Procs : Step(c) \/ Crash(c)

SpecRestart == Init /\ [][NextRestart]_vars /\ \A c \in Procs : WF_vars(Step(c))

(***************************************************************************)
(* The upstream producer: the ingest endpoint.  An upload carries the      *)
(* manifest as a text; the optional files are left out, so nothing is      *)
(* saved and no hash is computed.  Each answer of the endpoint is kept in  *)
(* the history with its status.                                            *)
(***************************************************************************)
Unknown == <<"u", "n", "k", "n", "o", "w", "n">>

\* str(man.get(k, "unknown")).strip() or "unknown"
NameOf(man, k) ==
  LET s == Strip(PyStr(Get(man, k, JStr(Unknown))))
  IN IF s = <<>> THEN Unknown ELSE s

\* out_dir = INGEST_BASE / date / camera_id / frame_id (below the base and
\* the date of the upload)
out_dir(man) == NameOf(man, "camera_id") \o <<"/">> \o NameOf(man, "frame_id")

\* {**man, "saved_bytes": ..., "hashes": ..., "ingest": {...}}
final_manifest(man) ==
  [k \in DOMAIN man \cup {"saved_bytes", "hashes", "ingest"} |->
     CASE k = "saved_bytes" ->
            JObj([frame |-> JNum(0), tagged |-> JNum(0),
                  detections |-> JNum(0), description |-> JNum(0)])
       [] k = "hashes" ->
            JObj([frame_sha256 |-> JStr(<<>>), tagged_sha256 |-> JStr(<<>>),
                  detections_sha256 |-> JStr(<<>>),
                  description_sha256 |-> JStr(<<>>)])
       [] k = "ingest" ->
            JObj([base |-> JStr(<<"/">>), dir |-> JStr(out_dir(man)),
                  received_at |-> JStr(<<"t">>)])
       [] OTHER -> man[k]]

\* the n-th answer of the endpoint with this status
Response(status) ==
  [ev |-> "response", id |-> 0, dn |-> 0, by |-> "ingest_api", ph |-> "-",
   info |-> status,
   n |-> 1 + Cardinality({e \in log : e.ev = "response" /\ e.info = status})]

\* POST /api/ingest/frame: 400 for a manifest that is not JSON; man.get
\* raises for a manifest that is no object (an unhandled exception, answered
\* 500); otherwise the enriched manifest is published with XADD inside
\* try/except Exception, which logs a failure, and the answer is status ok
ingest_frame(manifest) ==
  /\ Cardinality({e \in log : e.ev = "response"}) < MaxUploads
  /\ LET r == Loads(manifest) IN
     IF ~r.ok
     THEN log' = log \cup {Response("400")} /\ UNCHANGED stream
     ELSE IF r.val.type # "obj"
     THEN log' = log \cup {Response("500")} /\ UNCHANGED stream
     ELSE /\ \E ok \in BOOLEAN :
               IF ok
               THEN stream' = Append(stream,
                      [json |-> RawJson(JObj(final_manifest(r.val.m)))])
               ELSE UNCHANGED stream
          /\ log' = log \cup {Response("ok")}
  /\ UNCHANGED <<groupExists, lastDelivered, pel, dlqStream, files, drainHist,
                 pc, phase, batch, cur, seen, cursor, faults>>

\* the manifest texts of the uploads
UploadTexts ==
  { RawGarbage, RawJson(JNum(1)), RawJson(JObj(EmptyDict)),
    RawJson(JObj([frame_id |-> JStr(FidA), camera_id |-> JStr(<<"c">>)])),
    RawJson(JObj([frame_id |-> JStr(FidB), ingest |-> JNum(1)])),
    RawJson(JObj([frame_id |-> JNull])) }

NextIngest == \E t \in UploadTexts : ingest_frame(t)

SpecIngest == InitWide /\ [][NextIngest]_vars

(***************************************************************************)
(* The monitoring dashboard, polled while the engine runs.  No call of     *)
(* the engine raises and the process is not killed.                        *)
(***************************************************************************)
\* group_stats(r, stream_name, group_name): xgroup_create(id="0-0",
\* mkstream=True) with every exception ignored, then xinfo_groups (and
\* xinfo_stream), which read only
group_stats ==
  /\ \E ok \in BOOLEAN :
       IF ok /\ ~groupExists
       THEN /\ groupExists' = TRUE
            /\ lastDelivered' = 0
            /\ pel' = [i \in {} |-> 0]
       ELSE UNCHANGED <<groupExists, lastDelivered, pel>>
  /\ UNCHANGED <<stream, dlqStream, files, drainHist, pc, phase, batch, cur,
                 seen, cursor, faults, log>>

NextDash ==
  \/ \E kv \in ScalePayloads : Publish(kv)
  \/ group_stats
  \/ \E c \in Procs : Step(c)

SpecDash == InitWide /\ [][NextDash]_vars

(***************************************************************************)
(* Runs of one process through the three phases over entries that repeat   *)
(* a frame key: the group holds entries delivered earlier to this consumer *)
(* or to another one and never acknowledged, and the producer keeps        *)
(* appending.  Sink and ledger start empty, no call raises and the process *)
(* is not killed; time passes.                                             *)
(***************************************************************************)
\* frame_id "a" twice over (the second with surrounding space), a
\* whitespace-only frame_id, a mismatch and a Manifest whose build raises
RepeatPayloads ==
  { KvGarbage,
    Manifest([frame_id |-> JStr(<<SP>>), ingest |-> JNum(1)]),
    Manifest([frame_id |-> JStr(FidA), camera_id |-> JStr(<<"c">>)]),
    Manifest([frame_id |-> JStr(<<SP, "a">>)]),
    Manifest([frame_id |-> JStr(<<SP>>)]) }

InitPhases ==
  /\ \E K \in 0..MaxEntries :
       /\ stream \in [1..K -> RepeatPayloads]
       /\ lastDelivered = K
       /\ pel \in [1..K -> [owner : Consumers, idle : BOOLEAN, dn : {1}]]
  /\ groupExists = TRUE
  /\ dlqStream = <<>>
  /\ sink = <<>>
  /\ ledger = <<>>
  /\ pc = [c \in Consumers |-> "off"]
  /\ phase = [c \in Consumers |-> "-"]
  /\ batch = [c \in Consumers |-> <<>>]
  /\ cur = [c \in Consumers |-> NoCur]
  /\ seen = [c \in Consumers |-> {}]
  /\ cursor = [c \in Consumers |-> 0]
  /\ log = {}
  /\ drainHist \in BOOLEAN
  /\ faults = MaxFaults

\* XADD by the producer, up to MaxBacklog entries on the stream
PublishMore(kv) ==
  /\ Len(stream) < MaxBacklog
  /\ stream' = Append(stream, kv)
  /\ UNCHANGED <<groupExists, lastDelivered, pel, dlqStream, files, drainHist,
                 pc, phase, batch, cur, seen, cursor, faults, log>>

NextPhases ==
  \/ \E kv \in RepeatPayloads : PublishMore(kv)
  \/ \E i \in 1..MaxBacklog : IdleElapse(i)
  \/ \E c \in Procs : Step(c)

SpecPhases == InitPhases /\ [][NextPhases]_vars

(***************************************************************************)
(* Scale-out with time passing: two processes of the same group, neither   *)
(* killed and no call raising, while a pending entry can stay              *)
(* unacknowledged for the minimum idle time (its consumer is slow).        *)
(***************************************************************************)
NextSlow ==
  \/ \E kv \in ScalePayloads : Publish(kv)
  \/ \E i \in 1..MaxEntries : IdleElapse(i)
  \/ \E c \in Consumers : Step(c)

SpecSlow == InitScale /\ [][NextSlow]_vars

(***************************************************************************)
(* Vocabulary of the properties.                                           *)
(***************************************************************************)
Entries == 1..Len(stream)
Delivered == 1..lastDelivered
Acked(i) == i \in Delivered /\ i \notin Pending

Events(ev) == {e \in log : e.ev = ev}
EventsOf(ev, i, dn) == {e \in log : e.ev = ev /\ e.id = i /\ e.dn = dn}
SinkLinesOf(i, dn) == {k \in 1..Len(sink) : sink[k].id = i /\ sink[k].dn = dn}
DlqRecordsOf(i, dn) ==
  {k \in 1..Len(dlqStream) : dlqStream[k].rec.id = i /\ dlqStream[k].dn = dn}

\* the decoded json field of entry i and its frame key
ManOf(i) == _normalize_payload(stream[i])
IsManifest(i) == ManOf(i).type = "obj"
KeyOf(i) == IF IsManifest(i) THEN FrameKey(ManOf(i).m) ELSE <<>>

(***************************************************************************)
(* C1: an entry is acknowledged only after its handling reached a terminal *)
(* step: its document was appended to the Sink, or its frame_id was found  *)
(* in the Idempotency Store, or a dead-letter publish for it was           *)
(* attempted.  An entry leaves the pending entries only by an acknowledge  *)
(* of the engine, and every acknowledge follows a terminal step of the     *)
(* same delivery.                                                          *)
(***************************************************************************)
C1_AckOnlyAfterTerminal ==
  /\ \A i \in Delivered : Acked(i) => \E e \in Events("ack") : e.id = i
  /\ \A e \in Events("ack") :
       \/ SinkLinesOf(e.id, e.dn) # {}
       \/ EventsOf("skip", e.id, e.dn) # {}
       \/ EventsOf("dlq", e.id, e.dn) # {}

\* an entry redelivered after a crash is acknowledged by PendingRecovery
C1_Witness == \E e \in Events("ack") : e.ph = "P" /\ e.dn = 2 /\ Acked(e.id)

(***************************************************************************)
(* C2, what the code guarantees: once a non-empty frame_id is in the       *)
(* Idempotency Store (the ledger file or the in-memory set), a delivery of *)
(* an entry carrying it is never built: it takes the skip path, which      *)
(* appends no Sink line and no ledger line and reads no enrichment file.   *)
(* It is dead-lettered only when the acknowledge call of the skip path     *)
(* raises, and then with the exception cause.                              *)
(***************************************************************************)
InStore(c, fid) == fid # <<>> /\ fid \in seen[c] \cup _load_seen_ids(ledger)

SkipAddsNoFile(e) ==
  /\ SinkLinesOf(e.id, e.dn) = {}
  /\ EventsOf("record", e.id, e.dn) = {}
  /\ EventsOf("build", e.id, e.dn) = {}

C2_SkipAddsNothing ==
  /\ \A c \in Consumers :
       pc[c] \in {"build", "sink", "record"} => ~InStore(c, cur[c].fid)
  /\ \A e \in Events("skip") :
       /\ SkipAddsNoFile(e)
       /\ \A d \in EventsOf("dlq", e.id, e.dn) : d.info = "exception:ack"

\* a second entry with a recorded frame_id was skipped and acknowledged
C2_Witness ==
  \E e \in Events("skip") :
    /\ \E a \in EventsOf("ack", e.id, e.dn) : a.info = "skip_ack"
    /\ Acked(e.id)

\* C2: a delivery of an entry whose frame_id is in the Idempotency Store adds
\* no Sink line, no ledger line, no enrichment read and no dead-letter record
C2_Original ==
  \A e \in Events("skip") :
    SkipAddsNoFile(e) /\ EventsOf("dlq", e.id, e.dn) = {}

(***************************************************************************)
(* C3 (as amended): a delivery whose handling ran to completion was        *)
(* acknowledged after at least one of: its Sink append, a duplicate skip,  *)
(* a dead-letter publish attempt.  It has at most one Sink document.  It   *)
(* has both a Sink document and a dead-letter record only when the ledger  *)
(* append or the acknowledge raised after the Sink append; it has neither  *)
(* only when it was skipped as a duplicate or its dead-letter publish      *)
(* failed.                                                                 *)
(***************************************************************************)
Sunk(e) == SinkLinesOf(e.id, e.dn) # {}
DeadLettered(e) == DlqRecordsOf(e.id, e.dn) # {}

InBatch(c, i) == \E k \in 1..Len(batch[c]) : batch[c][k].id = i

C4_AckLiveness ==
  /\ [][\A c \in Procs : \A i \in 1..MaxEntries :
          InBatch(c, i) /\ ~InBatch(c, i)' =>
            (i \notin Pending)' \/ pc'[c] = "off"]_vars
  /\ \A c \in Procs : []<>(batch[c] = <<>>)

\* entries of a history-drain batch and of a live batch were acknowledged,
\* and nothing is pending
C4_Witness ==
  /\ \E e \in Events("ack") : e.ph = "H"
  /\ \E e \in Events("ack") : e.ph = "L"
  /\ Pending = {}

(***************************************************************************)
(* C5: with history-drain enabled, an entry whose handling was interrupted *)
(* by the death of the process is delivered again by HistoryDrain of the   *)
(* restarted process and ends acknowledged: every repeated delivery is one *)
(* of HistoryDrain, and the process is left with no pending entry again    *)
(* and again.  An entry acknowledged after such a repeated delivery has a  *)
(* Sink document (its own or one of its frame_id) or a dead-letter record, *)
(* or at least a dead-letter publish for it that was attempted and failed. *)
(***************************************************************************)
\* a Sink document of the entry or of its frame_id, or a dead-letter record
Covered(i) ==
  \/ \E k \in 1..Len(sink) :
       sink[k].id = i \/ (KeyOf(i) # <<>> /\ sink[k].key = KeyOf(i))
  \/ \E k \in 1..Len(dlqStream) : dlqStream[k].rec.id = i

DlqAttempted(i) == \E e \in Events("dlq") : e.id = i

Redelivered == {e \in Events("ack") : e.dn >= 2}

C5_CrashRecovery ==
  /\ [](drainHist => \A e \in Redelivered :
                       e.ph = "H" /\ (Covered(e.id) \/ DlqAttempted(e.id)))
  /\ []<>(drainHist => Pending = {})

\* an entry interrupted between its Sink append and its ledger append was
\* re-read by HistoryDrain, written a second time and acknowledged
C5_Witness ==
  /\ drainHist
  /\ \E e \in Redelivered :
       /\ Acked(e.id)
       /\ Cardinality({k \in 1..Len(sink) : sink[k].id = e.id}) = 2

\* C5: no entry re-read after a crash is acknowledged without any Sink
\* document or dead-letter record for it
C5_Original == drainHist => \A e \in Redelivered : Covered(e.id)

(***************************************************************************)
(* C6: in every reachable state, each frame_id of the ledger file (one per *)
(* line) and of the in-memory seen set of a process is the frame key (the  *)
(* frame_id as a string, stripped of surrounding whitespace) of a document *)
(* already in the Sink, and the ledger append and the in-memory add of a   *)
(* delivery come after the Sink append of the same delivery.               *)
(***************************************************************************)
SinkKeys == {FrameKey(sink[k].doc) : k \in 1..Len(sink)}
SinkFrameIds == {Get(sink[k].doc, "frame_id", None) : k \in 1..Len(sink)}
Stored == _load_seen_ids(ledger) \cup UNION {seen[c] : c \in Consumers}

C6_LedgerAfterSink ==
  /\ Stored \subseteq SinkKeys
  /\ \A c \in Consumers :
       pc[c] = "record" => SinkLinesOf(cur[c].id, cur[c].dn) # {}
  /\ \A e \in Events("record") : SinkLinesOf(e.id, e.dn) # {}

\* the frame_id recorded for a document whose frame_id is written with a
\* leading space
C6_Witness ==
  \E k \in 1..Len(sink) :
    /\ Get(sink[k].doc, "frame_id", None) = JStr(<<SP, "a">>)
    /\ FidA \in Stored
    /\ EventsOf("record", sink[k].id, sink[k].dn) # {}

\* C6: each frame_id of the ledger and of the seen sets is the frame_id of
\* a document already in the Sink
C6_Original == \A f \in Stored : JStr(f) \in SinkFrameIds

(***************************************************************************)
(* C7 (as amended): an entry whose fields lack json, or whose json value   *)
(* is not valid JSON, makes each of its deliveries attempt one dead-letter *)
(* publish with error "schema_mismatch" before the acknowledge (the record *)
(* is lost when the publish fails; a delivery repeated after a kill        *)
(* publishes again); the only other dead-letter record it can get is the   *)
(* one of a raising acknowledge.  It is acknowledged at most once, after   *)
(* which it is never pending again; it adds no Sink line and no ledger     *)
(* line.                                                                   *)
(***************************************************************************)
NoJsonOrInvalid(i) ==
  \/ "json" \notin DOMAIN stream[i]
  \/ ~Loads(stream[i].json).ok

MismatchRecords(i) ==
  {k \in 1..Len(dlqStream) : /\ dlqStream[k].rec.id = i
                             /\ dlqStream[k].rec.error = "schema_mismatch"}

AcksOf(i) == {e \in Events("ack") : e.id = i}

Decodes(i) == "json" \in DOMAIN stream[i] /\ Loads(stream[i].json).ok
NonObject(i) == Decodes(i) /\ stream[i].json.val.type # "obj"

C8_NonObjectIsMismatch ==
  \A e \in Events("dlq") : NonObject(e.id) => e.info = "schema_mismatch"

(***************************************************************************)
(* C9: an entry whose json value decodes to an object, the object without  *)
(* fields included, is not classified as a schema mismatch: it is built.   *)
(***************************************************************************)
C9_ObjectsAreBuilt ==
  \A e \in Events("dlq") \cup Events("ack") : IsManifest(e.id) =>
    /\ e.info # "schema_mismatch"
    /\ EventsOf("build", e.id, e.dn) # {} \/ EventsOf("skip", e.id, e.dn) # {}

(***************************************************************************)
(* C10: an entry whose Manifest has no frame_id, or an empty or            *)
(* whitespace-only one, is written to the Sink on every delivery, adds no  *)
(* ledger line and no element of the seen set, and the empty string is in  *)
(* neither.                                                                *)
(***************************************************************************)
NoFrameKey(i) == IsManifest(i) /\ KeyOf(i) = <<>>

C10_NoKeyBypassesStore ==
  /\ <<>> \notin Stored
  /\ \A e \in Events("record") : ~NoFrameKey(e.id)
  /\ \A e \in Events("ack") : NoFrameKey(e.id) => SinkLinesOf(e.id, e.dn) # {}

(***************************************************************************)
(* C11 (as amended): when a step among build, Sink append, ledger record   *)
(* and acknowledge raises for an entry, the handler attempts a dead-letter *)
(* publish carrying the exception detail and only then acknowledges the    *)
(* entry, in each of the three phases.  The record is lost when the        *)
(* publish fails.                                                          *)
(***************************************************************************)
ExceptionCauses ==
  { "exception:attr", "exception:build", "exception:sink",
    "exception:ledger", "exception:ack" }

HandlerAcks == {e \in Events("ack") : e.info = "exc_ack"}

C11_FailurePolicy ==
  /\ \A c \in Consumers :
       /\ pc[c] = "exc_dlq" => cur[c].err \in ExceptionCauses
       /\ pc[c] = "exc_ack" =>
            \E e \in EventsOf("dlq", cur[c].id, cur[c].dn) : e.info = cur[c].err
  /\ \A a \in HandlerAcks :
       /\ \E e \in EventsOf("dlq", a.id, a.dn) : e.info \in ExceptionCauses
       /\ a.id \notin Pending
  /\ \A k \in 1..Len(dlqStream) :
       dlqStream[k].rec.error \in ExceptionCauses =>
         \E e \in EventsOf("dlq", dlqStream[k].rec.id, dlqStream[k].dn) :
           e.info = dlqStream[k].rec.error

\* a build that raised in PendingRecovery was dead-lettered with its cause
\* and acknowledged
C11_Witness ==
  \E a \in HandlerAcks :
    /\ a.ph = "P"
    /\ \E k \in DlqRecordsOf(a.id, a.dn) :
         dlqStream[k].rec.error = "exception:build"

\* C11: every entry acknowledged by the handler of a raised step has a
\* dead-letter record carrying the exception detail
C11_Original ==
  \A a \in HandlerAcks :
    \E k \in DlqRecordsOf(a.id, a.dn) :
      dlqStream[k].rec.error \in ExceptionCauses

(***************************************************************************)
(* C12: an entry whose processing fails is handled once for the delivery:  *)
(* no step of a delivery is taken twice, and an entry acknowledged after a *)
(* failure is never delivered again.  The failure does not block the       *)
(* stream: with the history drain enabled, again and again every entry of  *)
(* the stream has been delivered and acknowledged.                         *)
(***************************************************************************)
SameStep(e) ==
  {x \in log : x.ev = e.ev /\ x.id = e.id /\ x.dn = e.dn /\ x.info = e.info}

FailureAcks == {e \in Events("ack") : e.info \in {"exc_ack", "mm_ack"}}

HandledOnce ==
  /\ \A e \in {x \in log : x.id \in Entries} : Cardinality(SameStep(e)) = 1
  /\ \A a \in FailureAcks :
       /\ a.id \notin Pending
       /\ \A x \in log : x.id = a.id => x.dn <= a.dn

C12_PoisonIsolation ==
  /\ []HandledOnce
  /\ []<>(drainHist => lastDelivered = Len(stream) /\ Pending = {})

\* the first entry of a live batch failed and was acknowledged by the
\* handler, and the next entry was indexed and acknowledged
C12_Witness ==
  \E a \in HandlerAcks : \E b \in Events("ack") :
    /\ a.ph = "L" /\ b.ph = "L"
    /\ b.id = a.id + 1
    /\ b.info = "ok_ack"

(***************************************************************************)
(* C13: a dead-letter publish that fails raises nothing: the entry that    *)
(* was being dead-lettered is at its acknowledge or acknowledged, with no  *)
(* second publish for it, and the entries after it are handled.            *)
(***************************************************************************)
LostPublishes ==
  {e \in Events("dlq") :
     \A k \in DlqRecordsOf(e.id, e.dn) : dlqStream[k].rec.error # e.info}

AtAck(c, e) ==
  /\ cur[c].id = e.id
  /\ cur[c].dn = e.dn
  /\ pc[c] = IF e.info = "schema_mismatch" THEN "mm_ack" ELSE "exc_ack"

C13_DlqFailureSwallowed ==
  \A e \in LostPublishes :
    /\ Cardinality(EventsOf("dlq", e.id, e.dn)) = 1
    /\ \/ \E c \in Procs : AtAck(c, e)
       \/ /\ e.id \notin Pending
          /\ \E a \in EventsOf("ack", e.id, e.dn) :
               a.info = IF e.info = "schema_mismatch" THEN "mm_ack"
                        ELSE "exc_ack"
    /\ \A c \in Procs : pc[c] # "off"

\* the dead-letter publish of the first entry of a batch was lost; the entry
\* and the one after it were acknowledged
C13_Witness ==
  \E e \in LostPublishes :
    /\ EventsOf("ack", e.id, e.dn) # {}
    /\ \E b \in Events("ack") : b.id = e.id + 1 /\ b.ph = e.ph

(***************************************************************************)
(* C14: in one process lifetime the phases come in the order HistoryDrain  *)
(* (only when enabled), PendingRecovery, LiveLoop: the process never goes  *)
(* back to an earlier phase, so each is entered at most once, and it       *)
(* enters a phase only from the one before it (PendingRecovery from the    *)
(* start when the drain is disabled).                                      *)
(***************************************************************************)
RankOf(p, ph) ==
  CASE p \in {"off", "load"} -> 0
    [] p = "drain_read" -> 1
    [] p = "claim" -> 2
    [] p = "live_read" -> 3
    [] OTHER -> CASE ph = "H" -> 1 [] ph = "P" -> 2 [] ph = "L" -> 3

PhaseRank(c) == RankOf(pc[c], phase[c])

InOrder(c) ==
  LET before == PhaseRank(c)
      after == RankOf(pc'[c], phase'[c])
  IN \/ pc'[c] = "off"
     \/ after = before
     \/ after = before + 1 /\ (after = 1 => drainHist)
     \/ before = 0 /\ after = 2 /\ ~drainHist

C14_PhaseOrder == [][\A c \in Procs : InOrder(c)]_vars

\* with the drain enabled, the process reached the live read and the last
\* batch it handled was one of HistoryDrain
C14_Witness ==
  \E c \in Procs : drainHist /\ pc[c] = "live_read" /\ phase[c] = "H"

(***************************************************************************)
(* C15 (as amended): HistoryDrain terminates, and with N entries pending   *)
(* for the consumer when it starts it makes ceil(N / BATCH_SIZE) + 1       *)
(* history read calls: the last one returns the empty batch that ends it.  *)
(***************************************************************************)
CeilDiv(n, b) == (n + b - 1) \div b

HistoryReads == Events("hread")

\* the entries pending for the consumer at the first history read
BacklogSize ==
  IF HistoryReads = {} THEN 0
  ELSE CHOOSE n \in {e.dn : e \in HistoryReads} :
         \A e \in HistoryReads : e.dn <= n

DrainReturned(c) == PhaseRank(c) >= 2

C15_DrainTerminates ==
  /\ [](\A c \in Procs :
          /\ Cardinality(HistoryReads) <= CeilDiv(BacklogSize, BATCH_SIZE) + 1
          /\ DrainReturned(c) /\ drainHist =>
               Cardinality(HistoryReads) = CeilDiv(BacklogSize, BATCH_SIZE) + 1)
  /\ \A c \in Procs : <>DrainReturned(c)

\* a backlog of three entries of the consumer was drained with three reads
C15_Witness ==
  \E c \in Procs :
    /\ DrainReturned(c)
    /\ BacklogSize = 3
    /\ Cardinality(HistoryReads) = 3

\* C15: HistoryDrain makes at most ceil(N / BATCH_SIZE) history read calls
C15_Original ==
  Cardinality(HistoryReads) <= CeilDiv(BacklogSize, BATCH_SIZE)

(***************************************************************************)
(* C16: when HistoryDrain has just returned (the process is about to make  *)
(* its first reclaim call) the group has no pending entry, whichever       *)
(* consumer the entries had been delivered to.                             *)
(***************************************************************************)
JustDrained(c) ==
  /\ drainHist
  /\ pc[c] = "claim"
  /\ phase[c] # "P"
  /\ Events("scan") = {}

C16_NoPendingAfterDrain ==
  \A c \in Procs : JustDrained(c) => Pending = {}

(***************************************************************************)
(* C17: PendingRecovery terminates for every backlog: whoever holds the    *)
(* pending entries, idle or not yet, and however many scans the cursor     *)
(* needs to come back to the start, the process reaches the live read.     *)
(***************************************************************************)
RecoveryReturned(c) == PhaseRank(c) = 3

C17_RecoveryTerminates == \A c \in Procs : <>RecoveryReturned(c)

\* the phase returned after scans that stopped before the end of the
\* pending entries, with entries of another consumer still pending
C17_Witness ==
  \E c \in Procs :
    /\ RecoveryReturned(c)
    /\ \E e \in Events("scan") : e.dn # 0
    /\ \E i \in Pending : pel[i].owner # c

(***************************************************************************)
(* C18: when PendingRecovery has returned, no pending entry of the group   *)
(* is idle for the minimum idle time and every entry the phase reclaimed   *)
(* is acknowledged; during the phase an idle entry stays pending and idle  *)
(* until it is reclaimed by this consumer in a batch of the phase.         *)
(***************************************************************************)
ReclaimedOrStill(c, i) ==
  \/ i \in Pending' /\ pel'[i].idle
  \/ /\ i \in Pending'
     /\ pel'[i] = [owner |-> c, idle |-> FALSE, dn |-> pel[i].dn + 1]
     /\ phase'[c] = "P"
     /\ InBatch(c, i)'

C18_RecoveryComplete ==
  /\ [](\A c \in Procs : RecoveryReturned(c) =>
          /\ \A i \in Pending : ~pel[i].idle
          /\ \A e \in log : e.ph = "P" /\ e.id \in Entries => e.id \notin Pending)
  /\ [][\A c \in Procs : \A i \in Pending :
          PhaseRank(c) = 2 /\ pel[i].idle => ReclaimedOrStill(c, i)]_vars

\* the phase returned after reclaiming and acknowledging two idle entries
\* of another consumer
C18_Witness ==
  \E c \in Procs :
    /\ RecoveryReturned(c)
    /\ Pending = {}
    /\ Cardinality({e.id : e \in {a \in Events("ack") : a.ph = "P"}}) >= 2

(***************************************************************************)
(* C19: a reclaim call that the broker rejects ends PendingRecovery        *)
(* without raising: the step changes no pending entry, no stream and no    *)
(* file, acknowledges and dead-letters nothing, and leaves the process at  *)
(* the live read.                                                          *)
(***************************************************************************)
ReclaimRejected == Events("noclaim")' # Events("noclaim")

C19_ReclaimUnsupported ==
  [][ReclaimRejected =>
       /\ \A c \in Procs : pc[c] = "claim" /\ pc'[c] = "live_read"
       /\ UNCHANGED <<stream, pel, dlqStream, sink, ledger, seen, batch, cur>>
       /\ Events("ack")' = Events("ack")
       /\ Events("dlq")' = Events("dlq")]_vars

\* the reclaim call was rejected, and the process then read and acknowledged
\* an entry in the live loop
C19_Witness ==
  /\ Events("noclaim") # {}
  /\ \E a \in Events("ack") : a.ph = "L"

(***************************************************************************)
(* C20: a broker call that fails is retried: a failed history read does    *)
(* not end the process and a failed reclaim call leaves the process at the *)
(* reclaim call.                                                           *)
(***************************************************************************)
HistoryReadDone == Events("hread")' # Events("hread")

C20_BrokerFailureRetried ==
  [][\A c \in Procs :
       /\ HistoryReadDone => pc'[c] # "off"
       /\ ReclaimRejected => pc'[c] = "claim"]_vars

(***************************************************************************)
(* C21: when the live loop is cancelled, every entry of the batch the      *)
(* consumer holds has been acknowledged by the time the process exits: the *)
(* step in which the process exits on a cancellation leaves no entry of    *)
(* its batch pending.                                                      *)
(***************************************************************************)
Cancelled == Events("cancel")' # Events("cancel")

C21_CancelFinishesBatch ==
  [][Cancelled =>
       \A c \in Procs : \A k \in 1..Len(batch[c]) :
         pc'[c] = "off" => batch[c][k].id \notin DOMAIN pel']_vars

(***************************************************************************)
(* C22: a batch is handled one entry at a time in the order the broker     *)
(* returned it.  The batch a process holds is in delivery order; the entry *)
(* in hand is its first one; every step that writes for an entry (Sink,    *)
(* dead-letter stream, ledger, acknowledge, history) writes for the first  *)
(* entry of the batch; and the next entry becomes the first one only in    *)
(* the step that issues the acknowledge of the current one.                *)
(***************************************************************************)
BatchInOrder(c) ==
  \A j, k \in 1..Len(batch[c]) : j < k => batch[c][j].id < batch[c][k].id

HeadInHand(c) ==
  cur[c].id # 0 =>
    /\ batch[c] # <<>>
    /\ cur[c].id = Head(batch[c]).id /\ cur[c].dn = Head(batch[c]).dn

WritesForHead(c) ==
  /\ \A e \in log' \ log :
       e.id # 0 /\ e.by = c =>
         batch[c] # <<>> /\ e.id = Head(batch[c]).id /\ e.dn = Head(batch[c]).dn
  /\ Len(sink') > Len(sink) /\ pc[c] = "sink" =>
       sink'[Len(sink')].id = Head(batch[c]).id
  /\ Len(dlqStream') > Len(dlqStream) /\ pc[c] \in {"mm_dlq", "exc_dlq"} =>
       dlqStream'[Len(dlqStream')].rec.id = Head(batch[c]).id

AdvanceOnAck(c) ==
  batch[c] # <<>> /\ batch'[c] # batch[c] /\ pc'[c] # "off" =>
    /\ batch'[c] = Tail(batch[c])
    /\ \E e \in log' \ log :
         e.ev = "ack" /\ e.id = Head(batch[c]).id /\ e.dn = Head(batch[c]).dn
    /\ Head(batch[c]).id \notin DOMAIN pel'

C22_BatchInOrder ==
  /\ [](\A c \in Procs : BatchInOrder(c) /\ HeadInHand(c))
  /\ [][\A c \in Procs : WritesForHead(c) /\ AdvanceOnAck(c)]_vars

\* the second entry of a batch of two is in hand, the first was acknowledged
\* in the same phase
C22_Witness ==
  \E c \in Procs :
    /\ Len(batch[c]) = 1 /\ cur[c].id = 2 /\ pc[c] = "ok_ack"
    /\ pel[2].dn = 1 /\ pel[2].owner = c
    /\ \E e \in Events("ack") : e.id = 1 /\ e.dn = 1 /\ e.ph = phase[c]
    /\ phase[c] = "L"

(***************************************************************************)
(* C23: with several processes of the group on the same files, once a      *)
(* frame_id is recorded in the ledger no process appends another Sink      *)
(* document for it: no step appends a Sink line whose frame key is in the  *)
(* ledger file already.                                                    *)
(***************************************************************************)
C23_ScaleOutIdempotent ==
  [][Len(sink') > Len(sink) =>
       LET line == sink'[Len(sink')]
       IN  line.key = <<>> \/ line.key \notin _load_seen_ids(ledger)]_vars

(***************************************************************************)
(* C24: ensure_group is idempotent.  A call that returns leaves the group  *)
(* existing; if the group was absent it has delivered nothing and holds no *)
(* pending entry, and if it existed its last-delivered ID and its pending  *)
(* entries are as before the call.  A call that fails with another error   *)
(* raises: the process does not go on, and the group is as before.  No     *)
(* call changes the entries of the stream.                                 *)
(***************************************************************************)
EnsureGroupReturned(c) == pc[c] = "off" /\ pc'[c] = "load"
EnsureGroupRaised(c) == pc[c] = "off" /\ faults' # faults

C24_EnsureGroupIdempotent ==
  [][\A c \in Procs :
       /\ EnsureGroupReturned(c) =>
            /\ groupExists'
            /\ groupExists => UNCHANGED <<lastDelivered, pel>>
            /\ ~groupExists => lastDelivered' = 0 /\ DOMAIN pel' = {}
            /\ UNCHANGED stream
       /\ EnsureGroupRaised(c) =>
            /\ pc'[c] = "off"
            /\ UNCHANGED <<groupExists, lastDelivered, pel, stream>>]_vars

\* the call returned on a group that has delivered entries and holds pending
\* ones (a restart after a kill)
C24_Witness ==
  \E c \in Procs :
    pc[c] = "load" /\ groupExists /\ lastDelivered > 0 /\ Pending # {}

(***************************************************************************)
(* C25: LiveLoop is terminal.  A process in the live loop stays in it in   *)
(* every step, or ends by a failure (a raising call or a kill): it never   *)
(* goes back to the history read or the reclaim call and never returns on  *)
(* its own.  A live read that does not fail and returns nothing leaves the *)
(* process at the live read: the process leaves the live read without a    *)
(* failure only with a batch of newly delivered entries in hand.           *)
(***************************************************************************)
InLive(c) == PhaseRank(c) = 3

C25_LiveLoopTerminal ==
  [][\A c \in Procs :
       /\ InLive(c) =>
            \/ RankOf(pc'[c], phase'[c]) = 3
            \/ pc'[c] = "off" /\ faults' = faults + 1
       /\ pc[c] = "live_read" /\ pc'[c] # "live_read" /\ faults' = faults =>
            /\ pc'[c] = "examine" /\ batch'[c] # <<>>
            /\ lastDelivered' > lastDelivered]_vars

\* the process handled a batch of the live loop and is at the live read
\* again, with nothing left to deliver: its reads return nothing
C25_Witness ==
  \E c \in Procs :
    /\ pc[c] = "live_read" /\ phase[c] = "L"
    /\ Len(stream) > 0 /\ lastDelivered = Len(stream) /\ Pending = {}
    /\ \E e \in Events("ack") : e.ph = "L" /\ e.by = c

(***************************************************************************)
(* C26: graceful enrichment degradation.  For a Manifest whose ingest.dir  *)
(* names a directory that does not exist the build does not raise, and the *)
(* document written to the Sink carries the fields of the Manifest         *)
(* (frame_id and camera_id as they came when the Manifest has them,        *)
(* activities, the directory) with objects and people empty lists.         *)
(***************************************************************************)
NoSuchDir(i) ==
  /\ IsManifest(i)
  /\ HasDir(ManOf(i).m)
  /\ ~Disk(DirOf(ManOf(i).m)).exists

BuildRaised(e) ==
  \E d \in EventsOf("dlq", e.id, e.dn) : d.info = "exception:build"

CarriesManifest(doc, man) ==
  /\ \A f \in {"frame_id", "camera_id"} :
       f \in DOMAIN man /\ man[f] # None => f \in DOMAIN doc /\ doc[f] = man[f]
  /\ "activities" \in DOMAIN doc
  /\ doc["activities"] = Get(man, "activities", JList(<<>>))
  /\ "ingest_dir" \in DOMAIN doc /\ doc["ingest_dir"] = JStr(DirOf(man))

C26_EnrichmentDegradation ==
  /\ \A e \in Events("build") : NoSuchDir(e.id) => ~BuildRaised(e)
  /\ \A k \in 1..Len(sink) :
       NoSuchDir(sink[k].id) =>
         /\ CarriesManifest(sink[k].doc, ManOf(sink[k].id).m)
         /\ sink[k].doc["objects"] = JList(<<>>)
         /\ sink[k].doc["people"] = JList(<<>>)

\* a Manifest with activities and a directory that does not exist was
\* written to the Sink and acknowledged
C26_Witness ==
  \E k \in 1..Len(sink) :
    /\ NoSuchDir(sink[k].id)
    /\ sink[k].doc["activities"] # JList(<<>>)
    /\ Acked(sink[k].id)

(***************************************************************************)
(* C27: the build never fails because of the enrichment files.  Whatever   *)
(* description.json and detections.json of an existing landing directory   *)
(* hold, a delivery that is built is not dead-lettered for the build.      *)
(***************************************************************************)
ReadsFiles(i) ==
  /\ IsManifest(i)
  /\ HasDir(ManOf(i).m)
  /\ Disk(DirOf(ManOf(i).m)).exists

C27_FilesNeverFailBuild ==
  \A e \in Events("build") : ReadsFiles(e.id) => ~BuildRaised(e)

(***************************************************************************)
(* C28: absent values are omitted, never written as null.  No field of a   *)
(* document in the Sink is null, at the top level and inside the file-path *)
(* mapping; the document of a Manifest without ingest.dir has no           *)
(* ingest_dir.                                                             *)
(***************************************************************************)
NoNullField(doc) ==
  /\ \A f \in DOMAIN doc : doc[f] # None
  /\ "files" \in DOMAIN doc =>
       \A g \in DOMAIN doc["files"].m : doc["files"].m[g] # None

C28_NoNullsWritten ==
  \A k \in 1..Len(sink) :
    /\ NoNullField(sink[k].doc)
    /\ ~HasDir(ManOf(sink[k].id).m) => "ingest_dir" \notin DOMAIN sink[k].doc

(***************************************************************************)
(* C29: every record on the dead-letter stream is {source, id, error, kv}: *)
(* source is the input stream, id the ID of an entry of it, kv the field   *)
(* mapping of that entry as published, error the cause of the dead-letter  *)
(* publish that wrote it: "schema_mismatch" only for an entry without a    *)
(* decodable payload, otherwise the exception.  Each publish writes at     *)
(* most one record.                                                        *)
(***************************************************************************)
RecordShape(r) ==
  /\ DOMAIN r = {"source", "id", "error", "kv"}
  /\ r.source = STREAM_IN
  /\ r.id \in Entries
  /\ r.kv = stream[r.id]

RecordCause(r) ==
  /\ r.error \in ExceptionCauses \cup {"schema_mismatch"}
  /\ r.error = "schema_mismatch" => ~Truthy(ManOf(r.id))
  /\ r.error = "exception:attr" => Truthy(ManOf(r.id)) /\ ~IsManifest(r.id)
  /\ r.error \in {"exception:build", "exception:sink", "exception:ledger"} =>
       IsManifest(r.id)

C29_DeadLetterRecord ==
  /\ \A k \in 1..Len(dlqStream) :
       /\ RecordShape(dlqStream[k].rec)
       /\ RecordCause(dlqStream[k].rec)
       /\ \E e \in EventsOf("dlq", dlqStream[k].rec.id, dlqStream[k].dn) :
            e.info = dlqStream[k].rec.error
  /\ \A e \in Events("dlq") :
       Cardinality(DlqRecordsOf(e.id, e.dn))
         <= Cardinality(EventsOf("dlq", e.id, e.dn))

\* the stream holds a schema-mismatch record and an exception record, of two
\* entries
C29_Witness ==
  \E j, k \in 1..Len(dlqStream) :
    /\ dlqStream[j].rec.error = "schema_mismatch"
    /\ dlqStream[k].rec.error = "exception:build"
    /\ dlqStream[j].rec.id # dlqStream[k].rec.id

(***************************************************************************)
(* C30: first delivery of a new key.  A delivery of a Manifest whose       *)
(* frame_id is a non-empty string without surrounding whitespace, handled  *)
(* without a failure up to its acknowledge, has exactly one Sink line,     *)
(* with the frame_id of the Manifest; the ledger holds exactly one line    *)
(* that is the frame_id; the frame_id is in the in-memory set; no          *)
(* dead-letter publish was made for it; it was acknowledged once.          *)
(***************************************************************************)
CleanKey(i) ==
  /\ IsManifest(i)
  /\ "frame_id" \in DOMAIN ManOf(i).m
  /\ ManOf(i).m["frame_id"].type = "str"
  /\ ManOf(i).m["frame_id"].s # <<>>
  /\ Strip(ManOf(i).m["frame_id"].s) = ManOf(i).m["frame_id"].s

LedgerLines == Lines(ledger, <<>>)

C30_FirstDelivery ==
  \A e \in Events("ack") :
    e.info = "ok_ack" /\ CleanKey(e.id) =>
      LET fid == ManOf(e.id).m["frame_id"].s IN
      /\ Cardinality(SinkLinesOf(e.id, e.dn)) = 1
      /\ \A k \in SinkLinesOf(e.id, e.dn) : sink[k].doc["frame_id"] = JStr(fid)
      /\ Cardinality({j \in 1..Len(LedgerLines) : LedgerLines[j] = fid}) = 1
      /\ fid \in seen[e.by]
      /\ EventsOf("dlq", e.id, e.dn) = {}
      /\ DlqRecordsOf(e.id, e.dn) = {}
      /\ Cardinality(EventsOf("ack", e.id, e.dn)) = 1
      /\ e.id \notin Pending

(***************************************************************************)
(* C31.  The Sink and the ledger are append-only: every step leaves the    *)
(* lines the Sink holds and the text the ledger holds in place and         *)
(* unchanged, and can only add at the end; a step of the schema-mismatch   *)
(* path or of the duplicate-skip path (the step that enters it, its        *)
(* dead-letter publish, its acknowledgment) adds nothing to either file.   *)
(***************************************************************************)
IsPrefix(s, t) == Len(s) <= Len(t) /\ SubSeq(t, 1, Len(s)) = s

MismatchOrSkipStep(c) ==
  \/ pc[c] \in {"mm_dlq", "mm_ack", "skip_ack"}
  \/ pc'[c] \in {"mm_dlq", "skip_ack"}

AppendOnlyStep ==
  /\ IsPrefix(sink, sink')
  /\ IsPrefix(ledger, ledger')
  /\ \A c \in Procs : MismatchOrSkipStep(c) => UNCHANGED files

C31_AppendOnly == [][AppendOnlyStep]_vars

\* both files were appended to twice, and an entry was skipped as a duplicate
C31_Witness ==
  /\ Len(sink) >= 2
  /\ Cardinality(Events("record")) >= 2
  /\ Events("skip") # {}

(***************************************************************************)
(* C32.  The producer publishes one stream entry per received frame: the   *)
(* input stream holds exactly one entry for each upload the ingest         *)
(* endpoint answered with status ok, and the single field json of every    *)
(* entry is the serialized enriched Manifest of an accepted upload.        *)
(***************************************************************************)
Responses(status) == {e \in Events("response") : e.info = status}

Accepted == {t \in UploadTexts : Loads(t).ok /\ Loads(t).val.type = "obj"}

C32_OneEntryPerUpload ==
  /\ Len(stream) = Cardinality(Responses("ok"))
  /\ \A i \in Entries :
       \E t \in Accepted :
         stream[i] = [json |-> RawJson(JObj(final_manifest(Loads(t).val.m)))]

(***************************************************************************)
(* C33.  The dashboard is a read-only consumer of the broker: a step that  *)
(* computes the group statistics changes no broker state (no stream and    *)
(* no consumer group is created, no cursor and no pending entry altered).  *)
(***************************************************************************)
C33_DashboardReadOnly == [][group_stats => UNCHANGED broker]_vars

(***************************************************************************)
(* C34.  Restart equivalence of the Idempotency Store: whatever entries    *)
(* the process has handled, loading the ledger file as a start of the      *)
(* process does yields exactly the set of frame_ids the process holds in   *)
(* memory, for every frame_id a Manifest can carry.                        *)
(***************************************************************************)
Running(c) == pc[c] \notin {"off", "load"}

C34_RestartEquivalence ==
  \A c \in Procs : Running(c) => _load_seen_ids(ledger) = seen[c]

(***************************************************************************)
(* C35.  For each delivery of an entry the engine attempts at most one     *)
(* dead-letter publish and issues at most one successful acknowledgment,   *)
(* whichever call fails.                                                   *)
(***************************************************************************)
OnePublishOneAck(i, dn) ==
  /\ Cardinality(EventsOf("dlq", i, dn)) <= 1
  /\ Cardinality(EventsOf("ack", i, dn)) <= 1

C35_OnePublishOneAck ==
  \A i \in Entries : \A dn \in 1..(MaxFaults + 1) : OnePublishOneAck(i, dn)

(***************************************************************************)
(* C36.  In a single process that is never killed and whose writes         *)
(* succeed, starting from an empty Sink and ledger, the Sink holds at most *)
(* one Index Document per non-empty frame key (the frame_id as text,       *)
(* stripped of surrounding whitespace), whatever number of entries carry   *)
(* it and in whichever of the three phases they are delivered.             *)
(***************************************************************************)
C36_OneDocumentPerKey ==
  \A a \in 1..Len(sink) : \A b \in 1..Len(sink) :
    a # b /\ sink[a].key = sink[b].key => sink[a].key = <<>>

\* the phases in which deliveries of entries with frame key k were handled
\* as far as the duplicate test
PhasesOfKey(k) ==
  {e.ph : e \in {x \in Events("build") \cup Events("skip") :
                   x.id \in Entries /\ KeyOf(x.id) = k}}

\* entries with the frame key a were handled in all three phases
C36_Witness ==
  /\ PhasesOfKey(FidA) = {"H", "P", "L"}
  /\ \E a \in 1..Len(sink) : sink[a].key = FidA

\* the claim with frame_id read as the value the Manifest carries
C36_Original ==
  \A a \in 1..Len(sink) : \A b \in 1..Len(sink) :
    /\ a # b
    /\ "frame_id" \in DOMAIN sink[a].doc
    /\ "frame_id" \in DOMAIN sink[b].doc
    /\ sink[a].doc.frame_id = sink[b].doc.frame_id
    => sink[a].doc.frame_id = JStr(<<>>)

(***************************************************************************)
(* C37.  A Manifest whose frame_id is the JSON value null is treated like  *)
(* a Manifest without frame_id: no delivery of it is recorded in the       *)
(* ledger or skipped as a duplicate, and every acknowledged delivery of it *)
(* has its Sink document.                                                  *)
(***************************************************************************)
NullFrameId(i) ==
  /\ IsManifest(i)
  /\ "frame_id" \in DOMAIN ManOf(i).m
  /\ ManOf(i).m["frame_id"] = JNull

C37_NullFrameIdBypasses ==
  \A i \in Entries : \A dn \in 1..(MaxFaults + 1) :
    NullFrameId(i) =>
      /\ EventsOf("record", i, dn) = {}
      /\ EventsOf("skip", i, dn) = {}
      /\ EventsOf("ack", i, dn) # {} => SinkLinesOf(i, dn) # {}

(***************************************************************************)
(* C38.  With two consumers in the group and no process killed, each       *)
(* stream entry is written to the Sink by at most one consumer: an entry   *)
(* that a running consumer is still handling is not also handled and       *)
(* written by the PendingRecovery of the other.                            *)
(***************************************************************************)
\* the consumers whose handling of entry i appended a Sink line
SinkWriters(i) ==
  {e.by : e \in {x \in Events("build") : x.id = i /\ SinkLinesOf(i, x.dn) # {}}}

C38_OneWriterPerEntry ==
  \A i \in Entries : Cardinality(SinkWriters(i)) <= 1

(***************************************************************************)
(* C39.  On a restart, every entry that was left pending for this          *)
(* consumer name is processed and acknowledged before LiveLoop starts,     *)
(* with history-drain enabled or not and however short the time since the  *)
(* entry was delivered: a process in LiveLoop has no entry of the backlog  *)
(* pending under its name.                                                 *)
(***************************************************************************)
C39_OwnBacklogBeforeLive ==
  \A c \in Procs : InLive(c) => OwnPending(c) = 0

====
